---- MODULE Spec2Model ----
(***************************************************************************)
(* A model of the EQT deep-research backend: the job submission endpoint   *)
(* (api.py), the job store (db_utils.py), the pipeline worker              *)
(* (research_processor.py), the Knowledge-Gap Loop (research_utils.py),    *)
(* the model gateway (bedrock_utils.py) and the structured response        *)
(* extractor (ai_utils.py).                                                *)
(*                                                                         *)
(* Python text values are sequences of chunks: "" is << >>, a whitespace   *)
(* only string is a sequence of " " chunks, None is the reserved NoneVal.  *)
(***************************************************************************)
EXTENDS Integers, Sequences, FiniteSets, TLC

VARIABLES
    config,      \* environment of the two Lambda functions (utils/config.py)
    request,     \* the submission being served: query, deep_research, user
    api,         \* create_research_job: position and response
    store,       \* the jobs table: job id -> item (only present attributes)
    now,         \* logical clock read by datetime.datetime.now()
    dispatched,  \* asynchronous invocations accepted by the platform
    invokes,     \* lambda_client.invoke calls issued by the endpoint
    w,           \* the worker: lambda_handler / ResearchPipeline locals
    loop,        \* perform_deep_research_rounds locals
    writes,      \* update_job_status calls issued by the worker, in order
    gw,          \* get_bedrock_response: one call
    ex           \* one call of a collaborator studied on its own:
                 \* extract_structured_data, identify_company_in_query,
                 \* perform_research, query_internal_knowledge_base; for
                 \* the store on its own, what update_job_status returned

vars == <<config, request, api, store, now, dispatched, invokes, w, loop,
          writes, gw, ex>>

----------------------------------------------------------------------------
(* Bounds of the model *)

MaxRounds == 2
MaxGaps == 2
MaxLen == 4
MaxPhrasings == 2
MaxHits == 2
MaxWrites == 3
MaxEnvLen == 2
MaxPages == 3
MaxLinks == 2
MaxDepth == 2

----------------------------------------------------------------------------
(* Python values *)

NoneVal == <<"<None>">>

\* `if v:` for an Optional[str]
Truthy(v) == v # NoneVal /\ v # << >>

RECURSIVE LStrip(_)
LStrip(s) == IF s # << >> /\ Head(s) = " " THEN LStrip(Tail(s)) ELSE s

RECURSIVE RStrip(_)
RStrip(s) ==
    IF s # << >> /\ s[Len(s)] = " " THEN RStrip(SubSeq(s, 1, Len(s) - 1)) ELSE s

\* str.strip()
Strip(s) == RStrip(LStrip(s))

\* `not s or not s.strip()`
IsBlank(s) == ~Truthy(s) \/ Strip(s) = << >>

\* str.startswith(("http://", "https://"))
StartsWithHttp(u) == u # << >> /\ Head(u) \in {"http://", "https://"}

\* substring test on chunked text
Contains(text, part) ==
    \E i \in 1..(Len(text) - Len(part) + 1) :
        SubSeq(text, i, i + Len(part) - 1) = part

----------------------------------------------------------------------------
(* The jobs table (utils/db_utils.py) *)

TtlDays == 7

JobId == "job_1"

PENDING == "PENDING"
PROCESSING == "PROCESSING"
COMPLETED == "COMPLETED"
FAILED == "FAILED"

NoItems == [j \in {} |-> 0]

\* DynamoDBManager.create_job: the item put into the table
NewItem(job_id, user_id, query, t) ==
    [ jobId |-> job_id, sessionId |-> << >>, userId |-> user_id,
      query |-> query, status |-> PENDING, created_at |-> t,
      updated_at |-> t,
      message |-> <<"Job created, waiting to start processing">>,
      ttl |-> t + TtlDays ]

\* a faulty variant: result and error are set on every update
UpdatedAttrsAlwaysBoth(status, message, result, error, t) ==
    [a \in {"updated_at", "status", "result", "error"}
          \cup (IF message # NoneVal THEN {"message"} ELSE {})
       |-> CASE a = "updated_at" -> t
             [] a = "status" -> status
             [] a = "message" -> message
             [] a = "result" -> IF result = NoneVal THEN << >> ELSE result
             [] a = "error" -> IF error = NoneVal THEN << >> ELSE error]

\* DynamoDBManager.update_job_status: the attributes the update expression
\* sets (an optional argument left None sets nothing)
UpdatedAttrs(status, message, result, error, t) ==
    [a \in {"updated_at", "status"}
          \cup (IF message # NoneVal THEN {"message"} ELSE {})
          \cup (IF result # NoneVal THEN {"result"} ELSE {})
          \cup (IF error # NoneVal THEN {"error"} ELSE {})
       |-> CASE a = "updated_at" -> t
             [] a = "status" -> status
             [] a = "message" -> message
             [] a = "result" -> result
             [] a = "error" -> error]

\* a faulty variant: attributes the item already has are kept
UpdateItemKeepsOld(items, job_id, attrs) ==
    LET old == IF job_id \in DOMAIN items THEN items[job_id]
               ELSE [a \in {"jobId"} |-> job_id]
    IN  (job_id :> (old @@ attrs)) @@ items

\* a faulty variant: a record that reached Completed or Failed is written no
\* more
UpdateItemUnlessTerminal(items, job_id, attrs) ==
    IF job_id \in DOMAIN items /\ items[job_id].status \in {COMPLETED, FAILED}
    THEN items
    ELSE LET old == IF job_id \in DOMAIN items THEN items[job_id]
                    ELSE [a \in {"jobId"} |-> job_id]
         IN  (job_id :> (attrs @@ old)) @@ items

\* jobs_table.update_item: SET on the item with that key (created if missing)
UpdateItem(items, job_id, attrs) ==
    LET old == IF job_id \in DOMAIN items THEN items[job_id]
               ELSE [a \in {"jobId"} |-> job_id]
    IN  (job_id :> (attrs @@ old)) @@ items

Has(item, attr) == attr \in DOMAIN item

----------------------------------------------------------------------------
(* Inputs *)

Queries == { NoneVal, << >>, <<" ">>, <<"q">> }

Users == { "anonymous", "u1" }

Configs ==
    [ api_table : BOOLEAN,      \* JOBS_TABLE_NAME in the endpoint's environment
      processor : BOOLEAN,      \* RESEARCH_PROCESSOR_LAMBDA
      w_table : BOOLEAN,        \* JOBS_TABLE_NAME in the worker's environment
      rounds : 0..MaxRounds ]   \* RESEARCH_ROUNDS

Requests == [ query : Queries, deep_research : BOOLEAN, user : Users ]

\* assets/eqt_portfolio.json as loaded by fetch_portfolio_companies
Catalog ==
    << [ name |-> <<"Acme">>, link |-> <<"https://", "eqt/acme">>,
         website |-> <<"https://", "acme.com">> ],
       [ name |-> <<"Bolt">>, link |-> <<"https://", "eqt/bolt">>,
         website |-> << >> ] >>

\* what the model may answer to the identification prompt, once extracted
ExtractedCompanies ==
    { Catalog[1], Catalog[2],
      [ name |-> <<"Acme">>, link |-> <<"eqt/acme">>,
        website |-> <<"ftp://", "acme.com">> ],
      [ name |-> <<"Acme">>, link |-> <<"https://", "eqt/acme">>,
        website |-> <<"acme.com">> ],
      [ name |-> <<"Ghost">> ] }

NoCompany == [ none |-> TRUE ]

Get(d, k) == IF k \in DOMAIN d THEN d[k] ELSE NoneVal

PageTexts == { << >>, <<"page">> }

ExcMessages == { << >>, <<"boom">> }

----------------------------------------------------------------------------
(* The submission endpoint (api.py, create_research_job) *)

NoResponse == [ status |-> "none" ]

ApiInit == [ pc |-> "validate", response |-> NoResponse ]

\* a faulty variant: only a null query is missing
QueryMissingOnlyNone(query) == query = NoneVal

\* api.py line 93: `if not query`
QueryMissing(query) == ~Truthy(query)

\* lines 85-94
ApiValidate ==
    /\ api.pc = "validate"
    /\ IF QueryMissing(request.query)
       THEN api' = [ pc |-> "done",
                     response |-> [ status |-> "error",
                                    error |-> <<"Missing query parameter">> ] ]
       ELSE api' = [ api EXCEPT !.pc = "create" ]
    /\ UNCHANGED <<config, request, store, now, dispatched, invokes, w, loop,
                   writes, gw, ex>>

\* a faulty variant: the item is created in Processing
CreateJobPutsProcessing(items, job_id, user_id, query, t) ==
    (job_id :> [NewItem(job_id, user_id, query, t) EXCEPT !.status = PROCESSING])
        @@ items

\* DynamoDBManager.create_job, the put_item succeeding
CreateJobPut(items, job_id, user_id, query, t) ==
    (job_id :> NewItem(job_id, user_id, query, t)) @@ items

\* a faulty variant: a job that was not created passes for created
CreateFailedNever(job_written) == FALSE

\* api.py line 113: `if not job`; create_job returns None when put_item
\* raised (db_utils.py lines 88-90)
CreateFailed(job_written) == ~job_written

\* lines 109-114; DynamoDBManager.__init__ raises when JOBS_TABLE_NAME is
\* missing, and api.lambda_handler turns that into a 500
ApiCreateJob ==
    /\ api.pc = "create"
    /\ IF ~config.api_table
       THEN /\ api' = [ pc |-> "done",
                        response |-> [ status |-> "http500",
                                       error |-> <<"Internal server error: ",
                                                   "JOBS_TABLE_NAME environment variable is required">> ] ]
            /\ UNCHANGED <<store, now>>
       ELSE \E put_ok \in BOOLEAN :
              /\ now' = now + 1
              /\ store' = IF put_ok
                          THEN CreateJobPut(store, JobId, request.user,
                                            request.query, now)
                          ELSE store
              /\ api' = IF CreateFailed(put_ok)
                        THEN [ pc |-> "done",
                               response |-> [ status |-> "failed",
                                              error |-> <<"Failed to create job">> ] ]
                        ELSE [ api EXCEPT !.pc = "dispatch" ]
    /\ UNCHANGED <<config, request, dispatched, invokes, w, loop, writes, gw, ex>>

Payload(job_id, user_id, query, deep_research) ==
    [ job_id |-> job_id, user_id |-> user_id, query |-> query,
      deep_research |-> deep_research ]

\* a faulty variant: an accepted invocation is queued twice
InvokeTwice(queue, payload, accepted) ==
    IF accepted THEN queue \o <<payload, payload>> ELSE queue

\* lines 129-147: lambda_client.invoke(InvocationType="Event"); a raised
\* exception is logged and the request goes on
Invoke(queue, payload, accepted) ==
    IF accepted THEN Append(queue, payload) ELSE queue

\* lines 116-147
ApiDispatch ==
    /\ api.pc = "dispatch"
    /\ IF ~config.processor
       THEN /\ api' = [ pc |-> "done",
                        response |-> [ status |-> "error",
                                       error |-> <<"Missing RESEARCH_PROCESSOR_LAMBDA configuration">> ] ]
            /\ UNCHANGED <<dispatched, invokes>>
       ELSE \E accepted \in BOOLEAN :
              LET payload == Payload(JobId, request.user, request.query,
                                     request.deep_research)
              IN  /\ invokes' = Append(invokes, payload)
                  /\ dispatched' = Invoke(dispatched, payload, accepted)
                  /\ api' = [ api EXCEPT !.pc = "respond" ]
    /\ UNCHANGED <<config, request, store, now, w, loop, writes, gw, ex>>

\* lines 149-154
ApiReturn ==
    /\ api.pc = "respond"
    /\ api' = [ pc |-> "done",
                response |-> [ status |-> "pending", job_id |-> JobId ] ]
    /\ UNCHANGED <<config, request, store, now, dispatched, invokes, w, loop,
                   writes, gw, ex>>

----------------------------------------------------------------------------
(* The pipeline worker (research_processor.py) *)

\* a local variable of process() that holds nothing: not assigned yet, or not
\* read any more
Unset == <<"<unset>">>

\* kb_data: the local of process() line 142; response: what the gateway
\* returned to analyze_company_info (line 438 of research_utils.py);
\* stages: the stage calls of process(), in the order they were made
WInit ==
    [ pc |-> "idle", job_id |-> "", user_id |-> "", query |-> NoneVal,
      deep_research |-> FALSE, research_rounds |-> 0, companies |-> << >>,
      company_data |-> NoCompany, eqt_content |-> NoneVal,
      company_content |-> NoneVal, fetched |-> << >>,
      kb_data |-> Unset, response |-> Unset,
      analysis |-> NoneVal, exc |-> NoneVal, success |-> FALSE,
      statusCode |-> 0, stages |-> << >> ]

\* process() calls a stage: its name, and the number of update_job_status
\* calls process() has issued before the call
Started(wr, stage, issued) ==
    [ wr EXCEPT !.stages = Append(@, [ name |-> stage, writes |-> issued ]) ]

\* DynamoDBManager.update_job_status (db_utils.py lines 113-152): one
\* update_item call, which either succeeds or raises (then logged, False)
StatusWrite(job_id, status, message, result, error, ok) ==
    /\ now' = now + 1
    /\ store' = IF ok
                THEN UpdateItem(store, job_id,
                                UpdatedAttrs(status, message, result, error, now))
                ELSE store
    /\ writes' = Append(writes, [ status |-> status, message |-> message,
                                  result |-> result, error |-> error ])

\* ResearchPipeline._update_status
UpdateStatus(message, ok) ==
    StatusWrite(w.job_id, PROCESSING, message, NoneVal, NoneVal, ok)

\* a faulty variant: an empty result fails the job
CompleteJobRejectsEmpty(result, ok) ==
    IF IsBlank(result)
    THEN StatusWrite(w.job_id, FAILED, NoneVal, NoneVal, <<"Empty result">>, ok)
    ELSE StatusWrite(w.job_id, COMPLETED, <<"Research complete">>, result,
                     NoneVal, ok)

\* ResearchPipeline._complete_job (lines 75-84): an empty result is logged
\* only
CompleteJob(result, ok) ==
    StatusWrite(w.job_id, COMPLETED, <<"Research complete">>, result, NoneVal, ok)

\* ResearchPipeline._fail_job
FailJob(error_msg, ok) ==
    StatusWrite(w.job_id, FAILED, NoneVal, NoneVal, error_msg, ok)

\* a faulty variant: the configured value is taken as it is
ClampRoundsKeeps(r) == r

\* ResearchPipeline.__init__ lines 66-68
ClampRounds(r) == IF r < 1 THEN 1 ELSE r

\* ResearchPipeline.__init__ line 43: `not query or not query.strip()`
InitRejects(query) == IsBlank(query)

\* lambda_handler lines 186-222 with ResearchPipeline.__init__; what __init__
\* raises is caught at lines 242-251 and answered with a 500
LambdaHandler ==
    /\ w.pc = "idle"
    /\ dispatched # << >>
    /\ LET event == Head(dispatched)
       IN  IF event.job_id = "" \/ ~Truthy(event.query)
           THEN w' = [ w EXCEPT !.pc = "returned", !.statusCode = 400 ]
           ELSE IF InitRejects(event.query)
           THEN w' = [ w EXCEPT !.pc = "returned", !.statusCode = 500,
                                !.exc = <<"Invalid or empty query parameter">> ]
           ELSE IF ~config.w_table
           THEN w' = [ w EXCEPT !.pc = "returned", !.statusCode = 500,
                                !.exc = <<"JOBS_TABLE_NAME environment variable is required">> ]
           ELSE w' = [ w EXCEPT !.pc = "process",
                                !.job_id = event.job_id,
                                !.user_id = IF event.user_id = "" THEN "anonymous"
                                            ELSE event.user_id,
                                !.query = Strip(event.query),
                                !.deep_research = event.deep_research,
                                !.research_rounds = ClampRounds(config.rounds) ]
    /\ dispatched' = Tail(dispatched)
    /\ UNCHANGED <<config, request, api, store, now, invokes, loop, writes, gw, ex>>

\* an exception escaping a stage call inside process()'s try block
Raise(wr, m) ==
    w' = [ wr EXCEPT !.pc = "except", !.exc = m,
                     !.kb_data = Unset, !.response = Unset ]

\* process() lines 101-103
ProcessFetch ==
    /\ w.pc = "process"
    /\ \E ok \in BOOLEAN : UpdateStatus(<<"Retrieving EQT portfolio data">>, ok)
    /\ \/ \E c \in { << >>, Catalog } :
            w' = [ Started(w, "fetch", Len(writes) + 1) EXCEPT
                     !.pc = "fetched", !.companies = c ]
       \/ \E m \in ExcMessages :
            Raise(Started(w, "fetch", Len(writes) + 1), m)
    /\ UNCHANGED <<config, request, api, dispatched, invokes, loop, gw, ex>>

\* process() lines 104-112
ProcessIdentify ==
    /\ w.pc = "fetched"
    /\ \E ok \in BOOLEAN :
         IF w.companies = << >>
         THEN /\ FailJob(<<"Failed to access portfolio data">>, ok)
              /\ w' = [ w EXCEPT !.pc = "processed", !.success = FALSE ]
         ELSE /\ UpdateStatus(<<"Identifying company to research">>, ok)
              /\ \/ \E c \in {NoCompany} \cup ExtractedCompanies :
                      w' = [ Started(w, "identify", Len(writes) + 1) EXCEPT
                             !.pc = "identified", !.company_data = c ]
                 \/ \E m \in ExcMessages :
                      Raise(Started(w, "identify", Len(writes) + 1), m)
    /\ UNCHANGED <<config, request, api, dispatched, invokes, loop, gw, ex>>

\* what get_bedrock_response may return for the fallback prompt
FallbackResponses == { NoneVal, << >>, <<" ">>, <<"answer">> }

\* a faulty variant: the gateway's response is passed on as it is
GenerateFallbackResponsePassesOn(query, response) == response

\* generate_fallback_response (research_utils.py lines 475-499): the model's
\* answer, or a canned apology when the query is blank or the gateway
\* returns nothing
GenerateFallbackResponse(query, response) ==
    IF IsBlank(query)
    THEN <<"I'm sorry, but I didn't receive a valid query to respond to.">>
    ELSE IF ~Truthy(response)
    THEN <<"I'm sorry, but I can only provide information about specific EQT portfolio companies.">>
    ELSE response

\* a faulty variant: both sites are fetched without looking at the URLs
GatherCompanyInfoUnchecked(cd, eqt, comp) ==
    [ eqt |-> eqt, comp |-> comp,
      fetched |-> <<Get(cd, "link"), Get(cd, "website")>> ]

\* gather_company_info (research_utils.py lines 113-166): the two texts and
\* the URLs scraped; eqt and comp are what scrape_website returns
GatherCompanyInfo(cd, eqt, comp) ==
    LET eqt_website == Get(cd, "link")
        company_website == Get(cd, "website")
        none == [ eqt |-> NoneVal, comp |-> NoneVal, fetched |-> << >> ]
    IN  IF ~Truthy(eqt_website) THEN none
        ELSE IF ~StartsWithHttp(eqt_website) THEN none
        ELSE IF ~Truthy(company_website)
             THEN [ none EXCEPT !.fetched = <<eqt_website>> ]
        ELSE IF ~StartsWithHttp(company_website)
             THEN [ none EXCEPT !.fetched = <<eqt_website>> ]
        ELSE [ eqt |-> eqt, comp |-> comp,
               fetched |-> <<eqt_website, company_website>> ]

CompanyName(cd) == IF "name" \in DOMAIN cd THEN cd.name ELSE <<"the company">>

\* process() lines 115-134
ProcessGather ==
    /\ w.pc = "identified"
    /\ \E ok \in BOOLEAN :
         IF w.company_data = NoCompany
         THEN /\ UpdateStatus(<<"Generating general response">>, ok)
              /\ \/ \E r \in FallbackResponses :
                      w' = [ Started(w, "fallback", Len(writes) + 1) EXCEPT
                                      !.pc = "fallback",
                                      !.analysis =
                                          GenerateFallbackResponse(w.query, r) ]
                 \/ \E m \in ExcMessages :
                      Raise(Started(w, "fallback", Len(writes) + 1), m)
         ELSE /\ UpdateStatus(<<"Gathering information about ">>
                                \o CompanyName(w.company_data), ok)
              /\ \/ \E eqt \in PageTexts, comp \in PageTexts :
                      LET g == GatherCompanyInfo(w.company_data, eqt, comp)
                      IN  w' = [ Started(w, "gather", Len(writes) + 1) EXCEPT
                                          !.pc = "gathered",
                                          !.eqt_content = g.eqt,
                                          !.company_content = g.comp,
                                          !.fetched = g.fetched ]
                 \/ \E m \in ExcMessages :
                      Raise(Started(w, "gather", Len(writes) + 1), m)
    /\ UNCHANGED <<config, request, api, dispatched, invokes, loop, gw, ex>>

\* process() lines 118-123
ProcessFallback ==
    /\ w.pc = "fallback"
    /\ \E ok \in BOOLEAN :
         IF ~Truthy(w.analysis)
         THEN /\ FailJob(<<"Failed to generate response">>, ok)
              /\ w' = [ w EXCEPT !.pc = "processed", !.success = FALSE ]
         ELSE /\ CompleteJob(w.analysis, ok)
              /\ w' = [ Started(w, "complete", Len(writes)) EXCEPT
                         !.pc = "processed", !.success = TRUE ]
    /\ UNCHANGED <<config, request, api, dispatched, invokes, loop, gw, ex>>

KbTexts == { NoneVal, <<"kb">> }

\* the initial synthesis the model may return
FirstAnalyses == { NoneVal, << >>, <<" ">>, <<"A0">> }

\* a faulty variant: no synthesis without knowledge-base data
AnalyzeCompanyInfoNeedsKb(query, eqt, comp, kb_data, response) ==
    IF ~Truthy(kb_data) THEN NoneVal ELSE response

\* analyze_company_info (research_utils.py lines 392-444): response is what
\* get_bedrock_response returned; absent knowledge-base data are replaced by
\* an empty section of the prompt (lines 408-417)
AnalyzeCompanyInfo(query, eqt, comp, kb_data, response) ==
    IF IsBlank(query) THEN NoneVal
    ELSE IF ~Truthy(eqt) /\ ~Truthy(comp) THEN NoneVal
    ELSE IF ~Truthy(response) THEN NoneVal
    ELSE response

\* a faulty variant: empty evidence is let through
GatherFailedNever(eqt, comp) == FALSE

\* process() line 137: `if not eqt_content or not company_content`
GatherFailed(eqt, comp) == ~Truthy(eqt) \/ ~Truthy(comp)

\* process() lines 137-148: the knowledge-base query (no status write), then
\* the initial synthesis
ProcessAnalyze ==
    /\ w.pc = "gathered"
    /\ IF GatherFailed(w.eqt_content, w.company_content)
       THEN /\ \E ok \in BOOLEAN :
                 FailJob(<<"Failed to gather company information">>, ok)
            /\ w' = [ w EXCEPT !.pc = "processed", !.success = FALSE ]
       ELSE \/ /\ \E m \in ExcMessages :
                    Raise(Started(w, "kb", Len(writes)), m)
               /\ UNCHANGED <<store, now, writes>>
            \/ /\ \E ok \in BOOLEAN :
                    UpdateStatus(<<"Analyzing collected information">>, ok)
               /\ \/ \E kb_data \in KbTexts, r \in FirstAnalyses :
                       w' = [ Started(Started(w, "kb", Len(writes)),
                                    "analyze", Len(writes) + 1) EXCEPT
                                !.pc = "analyzed",
                                !.kb_data = kb_data,
                                !.response = r,
                                !.analysis =
                                    AnalyzeCompanyInfo(w.query, w.eqt_content,
                                                       w.company_content,
                                                       kb_data, r) ]
                  \/ \E m \in ExcMessages :
                       Raise(Started(Started(w, "kb", Len(writes)),
                                     "analyze", Len(writes) + 1), m)
    /\ UNCHANGED <<config, request, api, dispatched, invokes, loop, gw, ex>>

----------------------------------------------------------------------------
(* The Knowledge-Gap Loop (research_utils.py, perform_deep_research_rounds) *)

RECURSIVE SeqsUpTo(_, _)
SeqsUpTo(S, n) ==
    IF n = 0 THEN { << >> }
    ELSE LET shorter == SeqsUpTo(S, n - 1)
         IN  shorter \cup { Append(q, x) : q \in shorter, x \in S }

\* the validated gaps of one round; a gap is the number of its search
\* queries (1: a primary query only, 2: primary and fallback)
GapLists == SeqsUpTo({1, 2}, MaxGaps)

\* how the searches of one gap end: an answer to the primary query, an
\* answer to the fallback query only, or no answer
GapOutcomes ==
    { [ primary |-> "answer", fallback |-> "empty" ],
      [ primary |-> "empty", fallback |-> "answer" ],
      [ primary |-> "raise", fallback |-> "raise" ] }

\* perform_research lines 658-742, one gap: the section it contributes
SectionFor(i, nq, out) ==
    IF out.primary = "answer" THEN << [ gap |-> i, via |-> "primary" ] >>
    ELSE IF nq > 1 /\ out.fallback = "answer"
         THEN << [ gap |-> i, via |-> "fallback" ] >>
         ELSE << >>

RECURSIVE SectionsFrom(_, _, _)
SectionsFrom(i, gaps, out) ==
    IF i > Len(gaps) THEN << >>
    ELSE SectionFor(i, gaps[i], out[i]) \o SectionsFrom(i + 1, gaps, out)

\* perform_research (lines 630-745); tavily_ok: the API key is configured and
\* the client could be built
PerformResearch(gaps, tavily_ok, out) ==
    IF gaps = << >> THEN << >>
    ELSE IF ~tavily_ok THEN << >>
    ELSE SectionsFrom(1, gaps, out)

\* what the model may return for the enrichment prompt
Analyses == { <<"A0">>, <<"A1">>, <<" ">> }

\* a faulty variant: without a response the analysis is lost
IncorporateNewResearchDropsAnalysis(current_analysis, additional_content, response) ==
    IF ~Truthy(response) THEN << >> ELSE response

\* incorporate_new_research (lines 771-822); response is what
\* get_bedrock_response returned for the enrichment prompt
IncorporateNewResearch(current_analysis, additional_content, response) ==
    IF additional_content = << >> THEN current_analysis
    ELSE IF IsBlank(current_analysis) THEN << >>
    ELSE IF ~Truthy(response) THEN current_analysis
    ELSE response

\* calls: the stages the current round has called; gateway: the calls of
\* get_bedrock_response the current round has made, by purpose; reply: whether the
\* gateway answered the enrichment prompt of the round (line 813 of
\* incorporate_new_research) with a text or with nothing; trail: what the loop has
\* logged of each finished round (lines 882-884, 887-889, 894-896, 899-901,
\* 911-913, 916, 919, 923)
LoopOff ==
    [ pc |-> "off", round_num |-> 0, rounds |-> 0, enriched |-> NoneVal,
      gaps |-> << >>, sections |-> << >>, last |-> "none",
      calls |-> {}, reply |-> "none", gateway |-> << >>, trail |-> << >> ]

\* the current round calls a stage
Calling(l, stage) == [ l EXCEPT !.calls = @ \cup {stage} ]

\* the current round calls get_bedrock_response (line 555 of
\* identify_knowledge_gaps, line 810 of incorporate_new_research); both calls
\* stand inside a try block that catches every exception, so a stage that
\* lets an exception escape raised it before its gateway call (lines
\* 533-539, 771-781)
Invoking(l, purpose) == [ l EXCEPT !.gateway = Append(@, purpose) ]

\* identify_knowledge_gaps lines 533-558: the gateway is reached unless the
\* query or the analysis is blank
IdentifyInvokes(query, current_analysis) ==
    ~IsBlank(query) /\ ~IsBlank(current_analysis)

\* incorporate_new_research lines 771-811: the gateway is reached when there
\* are sections to add to an analysis that is not blank
IncorporateInvokes(current_analysis, additional_content) ==
    additional_content # << >> /\ ~IsBlank(current_analysis)

\* what the trail keeps of a round that ends with outcome: the numbers of gaps
\* and of sections the round logged, or, of a round that an exception ended,
\* the stages it called only
RoundRecord(l, outcome) ==
    IF outcome = "error"
    THEN [ gaps |-> 0, sections |-> 0, calls |-> l.calls, reply |-> "none",
           gateway |-> l.gateway, outcome |-> outcome ]
    ELSE [ gaps |-> Len(l.gaps), sections |-> Len(l.sections),
           calls |-> l.calls, reply |-> l.reply, gateway |-> l.gateway,
           outcome |-> outcome ]

\* lines 860-873
LoopStart(query, current_analysis, rounds) ==
    IF IsBlank(query)
    THEN [ LoopOff EXCEPT !.pc = "done", !.enriched = current_analysis ]
    ELSE IF IsBlank(current_analysis)
    THEN [ LoopOff EXCEPT !.pc = "done", !.enriched = << >> ]
    ELSE [ LoopOff EXCEPT !.pc = "identify", !.round_num = 1,
                          !.rounds = IF rounds < 1 THEN 1 ELSE rounds,
                          !.enriched = current_analysis ]

\* how a round can end; the first three end the loop
StopOutcomes == { "no_gaps", "no_sections", "unchanged" }

\* a faulty variant: one round more than the budget
ForNextOneMore(l, outcome) ==
    IF l.round_num < l.rounds + 1
    THEN [ l EXCEPT !.pc = "identify", !.round_num = @ + 1, !.last = outcome,
                    !.gaps = << >>, !.sections = << >>, !.calls = {},
                    !.reply = "none", !.gateway = << >>,
                    !.trail = Append(@, RoundRecord(l, outcome)) ]
    ELSE [ l EXCEPT !.pc = "done", !.last = outcome,
                    !.gaps = << >>, !.sections = << >>, !.calls = {},
                    !.reply = "none", !.gateway = << >>,
                    !.trail = Append(@, RoundRecord(l, outcome)) ]

\* line 875: `for round_num in range(1, rounds + 1)`, the next iteration
ForNext(l, outcome) ==
    IF l.round_num < l.rounds
    THEN [ l EXCEPT !.pc = "identify", !.round_num = @ + 1, !.last = outcome,
                    !.gaps = << >>, !.sections = << >>, !.calls = {},
                    !.reply = "none", !.gateway = << >>,
                    !.trail = Append(@, RoundRecord(l, outcome)) ]
    ELSE [ l EXCEPT !.pc = "done", !.last = outcome,
                    !.gaps = << >>, !.sections = << >>, !.calls = {},
                    !.reply = "none", !.gateway = << >>,
                    !.trail = Append(@, RoundRecord(l, outcome)) ]

\* a faulty variant: the loop goes on where it should break
BreakGoesOn(l, outcome) == ForNext(l, outcome)

\* `break` (lines 885, 897, 914)
Break(l, outcome) ==
    [ l EXCEPT !.pc = "done", !.last = outcome,
               !.gaps = << >>, !.sections = << >>, !.calls = {},
               !.reply = "none", !.gateway = << >>,
               !.trail = Append(@, RoundRecord(l, outcome)) ]

\* lines 879-889; identify_knowledge_gaps returns [] for an analysis that is
\* blank (lines 537-539); lines 918-926 go on with the next round after an
\* exception
LoopIdentify ==
    /\ w.pc = "deep"
    /\ loop.pc = "identify"
    /\ LET called == Calling(loop, "identify")
           invoked == Invoking(called, "identify")
       IN  \/ \E gaps \in GapLists :
                 /\ IsBlank(loop.enriched) => gaps = << >>
                 /\ LET l == IF IdentifyInvokes(w.query, loop.enriched)
                             THEN invoked ELSE called
                    IN  loop' = IF gaps = << >>
                                THEN Break(l, "no_gaps")
                                ELSE [ l EXCEPT !.pc = "research",
                                                !.gaps = gaps ]
           \/ loop' = ForNext(called, "error")
    /\ UNCHANGED <<config, request, api, store, now, dispatched, invokes, w,
                   writes, gw, ex>>

\* lines 891-901
LoopResearch ==
    /\ w.pc = "deep"
    /\ loop.pc = "research"
    /\ \/ \E tavily_ok \in BOOLEAN, out \in [ 1..Len(loop.gaps) -> GapOutcomes ] :
            LET additional_content == PerformResearch(loop.gaps, tavily_ok, out)
            IN  loop' = IF additional_content = << >>
                        THEN Break(Calling(loop, "research"), "no_sections")
                        ELSE [ Calling(loop, "research") EXCEPT
                                 !.pc = "incorporate",
                                 !.sections = additional_content ]
       \/ loop' = ForNext(Calling(loop, "research"), "error")
    /\ UNCHANGED <<config, request, api, store, now, dispatched, invokes, w,
                   writes, gw, ex>>

\* a faulty variant: an analysis the enrichment left as it was passes for
\* changed
AnalysisUnchangedNever(enriched_analysis, previous_analysis) == FALSE

\* line 910: `if enriched_analysis == previous_analysis`
AnalysisUnchanged(enriched_analysis, previous_analysis) ==
    enriched_analysis = previous_analysis

\* lines 903-916
LoopIncorporate ==
    /\ w.pc = "deep"
    /\ loop.pc = "incorporate"
    /\ \/ \E r \in {NoneVal, << >>} \cup Analyses :
            LET previous_analysis == loop.enriched
                enriched_analysis ==
                    IncorporateNewResearch(loop.enriched, loop.sections, r)
                called ==
                    IF IncorporateInvokes(loop.enriched, loop.sections)
                    THEN [ Invoking(Calling(loop, "incorporate"), "incorporate")
                             EXCEPT !.reply = IF Truthy(r) THEN "text"
                                              ELSE "absent" ]
                    ELSE Calling(loop, "incorporate")
            IN  loop' = IF AnalysisUnchanged(enriched_analysis, previous_analysis)
                        THEN Break(called, "unchanged")
                        ELSE ForNext([ called EXCEPT
                                         !.enriched = enriched_analysis ],
                                     "enriched")
       \/ loop' = ForNext(Calling(loop, "incorporate"), "error")
    /\ UNCHANGED <<config, request, api, store, now, dispatched, invokes, w,
                   writes, gw, ex>>

----------------------------------------------------------------------------
(* process(), continued *)

\* process() line 155
DeepEnabled(deep_research, research_rounds) ==
    deep_research /\ research_rounds > 0

\* a faulty variant: an absent analysis is let through
AnalysisMissingNever(analysis) == FALSE

\* process() line 150: `if not analysis`
AnalysisMissing(analysis) == ~Truthy(analysis)

\* process() lines 150-166, up to the call of perform_deep_research_rounds;
\* kb_data and the gateway's response are not read from here on
ProcessDeep ==
    /\ w.pc = "analyzed"
    /\ \E ok \in BOOLEAN :
         IF AnalysisMissing(w.analysis)
         THEN /\ FailJob(<<"Failed to analyze company information">>, ok)
              /\ w' = [ w EXCEPT !.pc = "processed", !.success = FALSE,
                                 !.kb_data = Unset, !.response = Unset ]
              /\ loop' = loop
         ELSE IF DeepEnabled(w.deep_research, w.research_rounds)
         THEN /\ UpdateStatus(<<"Performing deep research on ">>
                                \o CompanyName(w.company_data), ok)
              /\ \/ /\ w' = [ Started(w, "loop", Len(writes) + 1) EXCEPT
                                !.pc = "deep", !.kb_data = Unset,
                                !.response = Unset ]
                    /\ loop' = LoopStart(w.query, w.analysis, w.research_rounds)
                 \/ /\ \E m \in ExcMessages :
                         Raise(Started(w, "loop", Len(writes) + 1), m)
                    /\ loop' = loop
         ELSE /\ CompleteJob(w.analysis, ok)
              /\ w' = [ Started(w, "complete", Len(writes)) EXCEPT
                                 !.pc = "processed", !.success = TRUE,
                                 !.kb_data = Unset, !.response = Unset ]
              /\ loop' = loop
    /\ UNCHANGED <<config, request, api, dispatched, invokes, gw, ex>>

\* process() lines 162-166, after perform_deep_research_rounds returned
ProcessComplete ==
    /\ w.pc = "deep"
    /\ loop.pc = "done"
    /\ \E ok \in BOOLEAN : CompleteJob(loop.enriched, ok)
    /\ w' = [ Started(w, "complete", Len(writes)) EXCEPT
                       !.pc = "processed", !.success = TRUE,
                       !.analysis = loop.enriched ]
    /\ UNCHANGED <<config, request, api, dispatched, invokes, loop, gw, ex>>

\* a faulty variant: the error text leaves the message out
ErrorTextBare(m) == <<"Research error">>

\* process() line 171: f"Research error: {str(e)}"
ErrorText(m) == <<"Research error: ">> \o m

\* process() lines 168-172
ProcessExcept ==
    /\ w.pc = "except"
    /\ \E ok \in BOOLEAN : FailJob(ErrorText(w.exc), ok)
    /\ w' = [ w EXCEPT !.pc = "processed", !.success = FALSE ]
    /\ UNCHANGED <<config, request, api, dispatched, invokes, loop, gw, ex>>

\* lambda_handler lines 223-240
HandlerReturn ==
    /\ w.pc = "processed"
    /\ w' = [ w EXCEPT !.pc = "returned", !.statusCode = 200 ]
    /\ UNCHANGED <<config, request, api, store, now, dispatched, invokes, loop,
                   writes, gw, ex>>

----------------------------------------------------------------------------
(* The model gateway (utils/bedrock_utils.py, get_bedrock_response) *)

RetryTokenThreshold == 2000
ReducedMaxTokens == 2000
DefaultMaxTokens == 4000

ModelSizes == { "SMALL", "MEDIUM", "LARGE" }

Prompts == { NoneVal, << >>, <<" ">>, <<"prompt">> }

TokenBudgets ==
    { RetryTokenThreshold - 1, RetryTokenThreshold, RetryTokenThreshold + 1,
      DefaultMaxTokens }

\* what client.converse can raise
ConverseErrors ==
    { "ModelTimeoutException", "AccessDeniedException",
      "ResourceNotFoundException", "ThrottlingException",
      "ParamValidationError", "ClientError", "Exception" }

\* the shapes of a response: a text item, content without a text item, a
\* missing key, a value of the wrong type
ResponseShapes == { "text", "no_text", "missing_key", "wrong_type" }

ResponseTexts == { << >>, <<"answer">> }

GwInputs ==
    [ pc : {"validate"}, prompt : Prompts, model_size : ModelSizes,
      max_tokens : TokenBudgets, client : {FALSE}, sent : { << >> },
      first : {"none"}, response : {"none"}, text : {NoneVal},
      outcome : {"running"},
      value : {NoneVal}, error : {"none"} ]

GwReturn(g, v) == [ g EXCEPT !.pc = "done", !.outcome = "returned", !.value = v ]

GwRaise(g, e) == [ g EXCEPT !.pc = "done", !.outcome = "raised", !.error = e ]

\* lines 114-143: the except clauses of the outer try, taken in order. The
\* first one evaluates client.exceptions.AccessDeniedException: with the
\* local `client` not yet bound that raises UnboundLocalError, which leaves
\* the function; with it bound every exception ends in `return None`
Handlers(g, e) ==
    IF g.client THEN GwReturn(g, NoneVal) ELSE GwRaise(g, "UnboundLocalError")

\* lines 56-59
GwValidate ==
    /\ gw.pc = "validate"
    /\ gw' = IF IsBlank(gw.prompt) THEN GwReturn(gw, NoneVal)
             ELSE [ gw EXCEPT !.pc = "client" ]
    /\ UNCHANGED <<config, request, api, store, now, dispatched, invokes, w,
                   loop, writes, ex>>

\* lines 61-73: boto3.client(...) returns a client or raises
GwClient ==
    /\ gw.pc = "client"
    /\ \/ gw' = [ gw EXCEPT !.pc = "converse", !.client = TRUE ]
       \/ gw' = Handlers(gw, "Exception")
    /\ UNCHANGED <<config, request, api, store, now, dispatched, invokes, w,
                   loop, writes, ex>>

\* a faulty variant: a timeout is retried on every tier
RetryAllowedAnyTier(model_size, max_tokens) == max_tokens > RetryTokenThreshold

\* line 85
RetryAllowed(model_size, max_tokens) ==
    model_size = "LARGE" /\ max_tokens > RetryTokenThreshold

\* lines 76-93
GwConverse ==
    /\ gw.pc = "converse"
    /\ LET g == [ gw EXCEPT !.sent = Append(@, gw.max_tokens) ]
       IN  \/ \E shape \in ResponseShapes, t \in ResponseTexts :
                gw' = [ g EXCEPT !.pc = "extract", !.first = "response",
                                 !.response = shape, !.text = t ]
           \/ \E e \in ConverseErrors :
                gw' = IF e = "ModelTimeoutException"
                         /\ RetryAllowed(gw.model_size, gw.max_tokens)
                      THEN [ g EXCEPT !.pc = "retry", !.first = e ]
                      ELSE Handlers([ g EXCEPT !.first = e ], e)
    /\ UNCHANGED <<config, request, api, store, now, dispatched, invokes, w,
                   loop, writes, ex>>

\* lines 86-91: the second request, sent from inside the except clause; what
\* it raises goes to the outer handlers
GwRetry ==
    /\ gw.pc = "retry"
    /\ LET g == [ gw EXCEPT !.sent = Append(@, ReducedMaxTokens) ]
       IN  \/ \E shape \in ResponseShapes, t \in ResponseTexts :
                gw' = [ g EXCEPT !.pc = "extract", !.response = shape, !.text = t ]
           \/ \E e \in ConverseErrors : gw' = Handlers(g, e)
    /\ UNCHANGED <<config, request, api, store, now, dispatched, invokes, w,
                   loop, writes, ex>>

\* lines 95-112
GwExtract ==
    /\ gw.pc = "extract"
    /\ gw' = CASE gw.response = "text" -> GwReturn(gw, gw.text)
               [] gw.response = "no_text" -> GwReturn(gw, <<"[", "]">>)
               [] gw.response = "missing_key" -> GwReturn(gw, NoneVal)
               [] gw.response = "wrong_type" -> Handlers(gw, "Exception")
    /\ UNCHANGED <<config, request, api, store, now, dispatched, invokes, w,
                   loop, writes, ex>>

----------------------------------------------------------------------------
(* The structured response extractor (utils/ai_utils.py,                   *)
(* extract_structured_data). A text is a sequence of tokens:               *)
(*   "F" a ``` fence, "FJ" a ```json fence, " " whitespace, "{" and "}"    *)
(*   single braces, "O" the well-formed object {"k": 1}, "n" a word that   *)
(*   is also a JSON scalar (42), "C" a line holding a // comment, "A" the  *)
(*   list [{"k": 1}], "B" the list [{}], "E" the empty list [].            *)

Tokens == { "F", "FJ", " ", "{", "}", "O", "n", "C", "A", "B", "E" }

\* the lists that hold an object, and the object inside
ListTokens == { "A", "B" }

Inner(token) ==
    IF token = "A" THEN <<"O">>
    ELSE IF token = "B" THEN <<"{", "}">>
    ELSE <<token>>

Texts == { NoneVal } \cup SeqsUpTo(Tokens, MaxLen)

FenceTokens == { "F", "FJ" }

\* the least index from `from` on whose token is in S, or 0
RECURSIVE FirstIn(_, _, _)
FirstIn(s, S, from) ==
    IF from > Len(s) THEN 0
    ELSE IF s[from] \in S THEN from
    ELSE FirstIn(s, S, from + 1)

\* the greatest index whose token is in S, or 0
RECURSIVE LastIn(_, _, _)
LastIn(s, S, upto) ==
    IF upto < 1 THEN 0
    ELSE IF s[upto] \in S THEN upto
    ELSE LastIn(s, S, upto - 1)

NoMatch == [ found |-> FALSE, str |-> << >> ]

\* line 280: re.search(r"```(?:json)?\s*\n?(.*?)```", text, re.DOTALL): the
\* leftmost fence opens, tagged json or not, the next fence closes, and
\* group 1 is what lies between, after the whitespace that follows the opener
FencedMatch(text) ==
    LET i == FirstIn(text, FenceTokens, 1)
        j == IF i = 0 THEN 0 ELSE FirstIn(text, FenceTokens, i + 1)
    IN  IF i = 0 \/ j = 0 THEN NoMatch
        ELSE [ found |-> TRUE, str |-> LStrip(SubSeq(text, i + 1, j - 1)) ]

\* line 284: re.search(r"\{.*\}", text, re.DOTALL): greedy, from the first
\* "{" to the last "}"; a match that starts or ends inside a list leaves
\* the list's other bracket in or out accordingly
BraceMatch(text) ==
    LET i == FirstIn(text, {"{", "O"} \cup ListTokens, 1)
        j == LastIn(text, {"}", "O"} \cup ListTokens, Len(text))
    IN  IF i = 0 \/ j < i THEN NoMatch
        ELSE IF i = j THEN [ found |-> TRUE, str |-> Inner(text[i]) ]
        ELSE [ found |-> TRUE,
               str |-> (IF text[i] \in ListTokens
                        THEN Inner(text[i]) \o <<"]">> ELSE <<text[i]>>)
                       \o SubSeq(text, i + 1, j - 1)
                       \o (IF text[j] \in ListTokens
                           THEN <<"[">> \o Inner(text[j]) ELSE <<text[j]>>) ]

\* lines 298-299: re.sub of the lines that start with // or #
RECURSIVE RemoveComments(_)
RemoveComments(s) ==
    IF s = << >> THEN << >>
    ELSE IF Head(s) = "C" THEN <<" ">> \o RemoveComments(Tail(s))
    ELSE <<Head(s)>> \o RemoveComments(Tail(s))

RECURSIVE Without(_, _)
Without(s, S) ==
    IF s = << >> THEN << >>
    ELSE IF Head(s) \in S THEN Without(Tail(s), S)
    ELSE <<Head(s)>> \o Without(Tail(s), S)

DecodeError == [ kind |-> "JSONDecodeError", members |-> {} ]

EmptyDict == [ kind |-> "dict", members |-> {} ]

TheObject == [ kind |-> "dict", members |-> {"k"} ]

EmptyList == [ kind |-> "list", items |-> << >> ]

\* json.loads on a token string: whitespace around the value is skipped; the
\* value is the object, the empty object, a scalar, or a list, and nothing
\* follows it
JsonLoads(json_str) ==
    LET t == Without(json_str, {" "})
    IN  IF t = <<"O">> THEN TheObject
        ELSE IF t = <<"{", "}">> THEN EmptyDict
        ELSE IF t = <<"n">> THEN [ kind |-> "scalar", members |-> {} ]
        ELSE IF t = <<"A">> THEN [ kind |-> "list", items |-> <<TheObject>> ]
        ELSE IF t = <<"B">> THEN [ kind |-> "list", items |-> <<EmptyDict>> ]
        ELSE IF t = <<"E">> THEN EmptyList
        ELSE DecodeError

\* lines 304-312: both except clauses return {}
OnDecodeError(r) == EmptyDict

\* a faulty variant: a fenced block that does not parse gives way to the
\* bare span
ExtractStructuredDataFallsBack(text) ==
    IF ~Truthy(text) THEN EmptyDict
    ELSE LET fenced == FencedMatch(text)
             bare == BraceMatch(text)
             rf == JsonLoads(RemoveComments(Strip(fenced.str)))
             rb == JsonLoads(RemoveComments(Strip(bare.str)))
         IN  IF fenced.found /\ rf.kind # "JSONDecodeError" THEN rf
             ELSE IF bare.found /\ rb.kind # "JSONDecodeError" THEN rb
             ELSE EmptyDict

\* extract_structured_data (lines 274-312)
ExtractStructuredData(text) ==
    IF ~Truthy(text) THEN EmptyDict
    ELSE LET fenced == FencedMatch(text)
             match == IF fenced.found THEN fenced ELSE BraceMatch(text)
         IN  IF ~match.found THEN EmptyDict
             ELSE LET r == JsonLoads(RemoveComments(Strip(match.str)))
                  IN  IF r.kind = "JSONDecodeError" THEN OnDecodeError(r)
                      ELSE r

ExtractCall ==
    /\ ex.pc = "call"
    /\ ex' = [ ex EXCEPT !.pc = "done", !.result = ExtractStructuredData(ex.text) ]
    /\ UNCHANGED <<config, request, api, store, now, dispatched, invokes, w,
                   loop, writes, gw>>

----------------------------------------------------------------------------
(* External research, gap by gap (utils/research_utils.py, perform_research) *)

\* the gaps handed to perform_research; a gap is the number of its search
\* queries, here also none
ResearchGapLists == SeqsUpTo({0, 1, 2}, MaxGaps)

SearchResults == { "answer", "empty", "raise" }

\* how the two searches of a gap would end
AllGapOutcomes == [ primary : SearchResults, fallback : SearchResults ]

ResearchInputs ==
    UNION { [ pc : {"start"}, gaps : {gaps}, tavily_ok : BOOLEAN,
              out : [ 1..Len(gaps) -> AllGapOutcomes ], i : {0},
              searches : { << >> }, sections : { << >> } ]
            : gaps \in ResearchGapLists }

\* lines 630-656
ResearchStart ==
    /\ ex.pc = "start"
    /\ ex' = IF ex.gaps = << >> \/ ~ex.tavily_ok
             THEN [ ex EXCEPT !.pc = "done" ]
             ELSE [ ex EXCEPT !.pc = "gap", !.i = 1 ]
    /\ UNCHANGED <<config, request, api, store, now, dispatched, invokes, w,
                   loop, writes, gw>>

\* a faulty variant: the fallback query is searched whenever there is one
SearchesForBoth(i, nq, out) ==
    IF nq = 0 THEN << >>
    ELSE IF nq = 1
         THEN << [ gap |-> i, query |-> "primary" ] >>
         ELSE << [ gap |-> i, query |-> "primary" ],
                 [ gap |-> i, query |-> "fallback" ] >>

\* lines 676-736: the searches issued for gap i
SearchesFor(i, nq, out) ==
    IF nq = 0 THEN << >>
    ELSE IF out.primary = "answer" \/ nq = 1
         THEN << [ gap |-> i, query |-> "primary" ] >>
         ELSE << [ gap |-> i, query |-> "primary" ],
                 [ gap |-> i, query |-> "fallback" ] >>

\* a faulty variant: a gap without an answer ends the round
AfterGapAbort(i, n, answered) == IF answered THEN i + 1 ELSE n + 1

\* line 658 with the `continue` of lines 669 and 742: the next gap, answered
\* or not
AfterGap(i, n, answered) == i + 1

\* lines 658-742, one iteration of the loop over the gaps
ResearchGap ==
    /\ ex.pc = "gap"
    /\ ex.i <= Len(ex.gaps)
    /\ LET nq == ex.gaps[ex.i]
           section == IF nq = 0 THEN << >>
                      ELSE SectionFor(ex.i, nq, ex.out[ex.i])
       IN  ex' = [ ex EXCEPT
                     !.searches = @ \o SearchesFor(ex.i, nq, ex.out[ex.i]),
                     !.sections = @ \o section,
                     !.i = AfterGap(ex.i, Len(ex.gaps), section # << >>) ]
    /\ UNCHANGED <<config, request, api, store, now, dispatched, invokes, w,
                   loop, writes, gw>>

\* lines 744-745
ResearchReturn ==
    /\ ex.pc = "gap"
    /\ ex.i > Len(ex.gaps)
    /\ ex' = [ ex EXCEPT !.pc = "done" ]
    /\ UNCHANGED <<config, request, api, store, now, dispatched, invokes, w,
                   loop, writes, gw>>

----------------------------------------------------------------------------
(* The entity resolver (utils/research_utils.py, identify_company_in_query) *)

NoneResult == [ kind |-> "none" ]

\* Python truthiness of a parsed value
JsonTruthy(v) ==
    CASE v.kind = "dict" -> v.members # {}
      [] v.kind = "list" -> v.items # << >>
      [] OTHER -> TRUE

\* a faulty variant: a list is not unwrapped
FirstOfListKeeps(v) == v

\* lines 73-74: `if isinstance(company_data, list) and company_data`
FirstOfList(v) == IF v.kind = "list" /\ v.items # << >> THEN v.items[1] ELSE v

\* lines 68-77 and 85-88: what is made of the extraction; .get on a value
\* that is not a dictionary raises AttributeError, which is caught
ResolveExtraction(company_data) ==
    IF ~JsonTruthy(company_data) THEN NoneResult
    ELSE LET first == FirstOfList(company_data)
         IN  IF first.kind = "dict" THEN first ELSE NoneResult

\* identify_company_in_query (lines 34-88); response is what
\* get_bedrock_response returned for the identification prompt
IdentifyCompanyInQuery(query, companies, response) ==
    IF IsBlank(query) THEN NoneResult
    ELSE IF companies = << >> THEN NoneResult
    ELSE IF ~Truthy(response) THEN NoneResult
    ELSE ResolveExtraction(ExtractStructuredData(response))

IdentifyCall ==
    /\ ex.pc = "identify"
    /\ ex' = [ ex EXCEPT !.pc = "done",
                         !.result = IdentifyCompanyInQuery(<<"q">>, Catalog, ex.text) ]
    /\ UNCHANGED <<config, request, api, store, now, dispatched, invokes, w,
                   loop, writes, gw>>

----------------------------------------------------------------------------
(* The round budget (config.py, Config._load_config) *)

\* the digits RESEARCH_ROUNDS is written with here, and their values
DigitValue == ("0" :> 0) @@ ("1" :> 1) @@ ("2" :> 2)

\* what RESEARCH_ROUNDS may hold: nothing, or a short text
EnvTexts ==
    { NoneVal } \cup SeqsUpTo(DOMAIN DigitValue \cup { "-", " ", "x" }, MaxEnvLen)

\* the digits of int(): an optional sign taken off the stripped text
Unsigned(text) ==
    LET t == Strip(text)
    IN  IF t # << >> /\ Head(t) = "-" THEN Tail(t) ELSE t

\* int(text) does not raise ValueError: digits only, at least one, after
\* the blanks around the text and an optional sign are taken off
IntParses(text) ==
    /\ Unsigned(text) # << >>
    /\ \A i \in 1..Len(Unsigned(text)) : Unsigned(text)[i] \in DOMAIN DigitValue

RECURSIVE Decimal(_)
Decimal(digits) ==
    IF digits = << >> THEN 0
    ELSE 10 * Decimal(SubSeq(digits, 1, Len(digits) - 1))
         + DigitValue[digits[Len(digits)]]

\* int(text) for a text that parses
IntOf(text) ==
    IF Head(Strip(text)) = "-" THEN 0 - Decimal(Unsigned(text))
    ELSE Decimal(Unsigned(text))

\* config.py lines 33-39: int(os.environ.get("RESEARCH_ROUNDS", "1")), 1
\* after ValueError or TypeError
LoadRounds(env) ==
    IF env = NoneVal THEN 1
    ELSE IF IntParses(env) THEN IntOf(env) ELSE 1

----------------------------------------------------------------------------
(* The knowledge-base query stage (research_utils.py,
   query_internal_knowledge_base) *)

\* what query_knowledge_base (bedrock_utils.py lines 146-252) does for one
\* query: it returns its hits (each with text or without), returns None, or
\* lets an exception escape (line 214 reads `client` before it is bound when
\* the client could not be built; line 167 calls strip() on a phrasing that
\* is no string)
KbSearchOutcomes ==
    [ end : {"results"}, hits : SeqsUpTo({"", "text"}, MaxHits) ]
        \cup { [ end |-> "none", hits |-> << >> ],
               [ end |-> "raise", hits |-> << >> ] }

\* one call: the query, whether KB_ID is set, and what reformulate_query
\* (lines 181-249) returns: the phrasings, [] after any failure
KbInputs ==
    [ pc : {"start"}, query : { <<"q">>, <<" ">> }, kb_id : BOOLEAN,
      reformulated : SeqsUpTo({ <<"p1">>, <<"p2">> }, MaxPhrasings),
      queries : { << >> }, searches : { << >> }, all_results : { << >> },
      result : { NoneVal } ]

\* lines 272-293
KbStart ==
    /\ ex.pc = "start"
    /\ ex' = IF IsBlank(ex.query) \/ ~ex.kb_id
             THEN [ ex EXCEPT !.pc = "done" ]
             ELSE [ ex EXCEPT !.pc = "search",
                              !.queries = IF ex.reformulated # << >>
                                          THEN ex.reformulated
                                          ELSE << ex.query >> ]
    /\ UNCHANGED <<config, request, api, store, now, dispatched, invokes, w,
                   loop, writes, gw>>

\* lines 298-319, one iteration: the search of phrasing idx; an exception
\* leaves the loop for the handlers of lines 351-360
KbSearch ==
    /\ ex.pc = "search"
    /\ LET idx == Len(ex.searches) + 1
       IN  /\ idx <= Len(ex.queries)
           /\ \E out \in KbSearchOutcomes :
                LET issued == Append(ex.searches, ex.queries[idx])
                    found == [ j \in 1..Len(out.hits) |->
                                 [ query |-> idx, hit |-> j,
                                   text |-> out.hits[j] ] ]
                IN  ex' = IF out.end = "raise"
                          THEN [ ex EXCEPT !.pc = "done", !.searches = issued ]
                          ELSE [ ex EXCEPT
                                   !.searches = issued,
                                   !.all_results = @ \o found,
                                   !.pc = IF idx = Len(ex.queries)
                                          THEN "format" ELSE "search" ]
    /\ UNCHANGED <<config, request, api, store, now, dispatched, invokes, w,
                   loop, writes, gw>>

\* lines 328-341: a section for every merged result that has text
RECURSIVE KbSections(_, _)
KbSections(all_results, i) ==
    IF i > Len(all_results) THEN << >>
    ELSE (IF all_results[i].text = "" THEN << >>
          ELSE << [ result |-> i, of |-> all_results[i] ] >>)
         \o KbSections(all_results, i + 1)

\* lines 321-349
KbReturn ==
    /\ ex.pc = "format"
    /\ ex' = [ ex EXCEPT
                 !.pc = "done",
                 !.result = IF KbSections(ex.all_results, 1) = << >>
                            THEN NoneVal
                            ELSE KbSections(ex.all_results, 1) ]
    /\ UNCHANGED <<config, request, api, store, now, dispatched, invokes, w,
                   loop, writes, gw>>

----------------------------------------------------------------------------
(* The job store on its own (db_utils.py, DynamoDBManager) *)

\* calls of update_job_status in any order, as _update_status,
\* _complete_job and _fail_job of research_processor.py (lines 70-91) issue
\* them; ex keeps what the last call returned (db_utils.py lines 149, 152)
StoreUpdate ==
    /\ Len(writes) < MaxWrites
    /\ \E ok \in BOOLEAN :
         /\ ex' = [ pc |-> "returned", result |-> ok ]
         /\ \/ \E message \in { <<"m1">>, <<"m2">> } :
                 StatusWrite(JobId, PROCESSING, message, NoneVal, NoneVal, ok)
            \/ \E result \in { << >>, <<"A0">> } :
                 StatusWrite(JobId, COMPLETED, <<"Research complete">>, result,
                             NoneVal, ok)
            \/ StatusWrite(JobId, FAILED, NoneVal, NoneVal, <<"e">>, ok)
    /\ UNCHANGED <<config, request, api, dispatched, invokes, w, loop, gw>>

----------------------------------------------------------------------------
(* The gaps of one round (research_utils.py, identify_knowledge_gaps) *)

\* the value of "search_queries" in an extracted gap: the key is absent, or
\* it holds a list of n query strings, or a JSON object of n members (such as
\* {"primary": ..., "fallback": ...})
QueryValues ==
    { [ kind |-> "absent", n |-> 0 ] }
        \cup [ kind : {"list", "dict"}, n : 0..2 ]

\* an element of the "knowledge_gaps" list: a JSON object with or without a
\* description, or null
GapEntries ==
    [ kind : {"dict"}, description : BOOLEAN, search_queries : QueryValues ]
        \cup { [ kind |-> "null", description |-> FALSE,
                 search_queries |-> [ kind |-> "absent", n |-> 0 ] ] }

\* what extract_structured_data made of the gateway's answer: {}, a list, or
\* an object with or without the "knowledge_gaps" key
GapDatas ==
    { [ kind |-> "empty", has_key |-> FALSE, gaps |-> << >> ],
      [ kind |-> "list", has_key |-> FALSE, gaps |-> << >> ],
      [ kind |-> "dict", has_key |-> FALSE, gaps |-> << >> ] }
        \cup [ kind : {"dict"}, has_key : {TRUE},
               gaps : SeqsUpTo(GapEntries, MaxGaps) ]

\* one call: the arguments, what get_bedrock_response returns (line 555) and
\* what is extracted from it (line 564)
GapsInputs ==
    [ pc : {"start"}, query : { <<"q">> }, current_analysis : { << >>, <<"A0">> },
      response : { NoneVal, <<"text">> }, gap_data : GapDatas,
      i : {0}, valid_gaps : { << >> }, result : { << >> } ]

\* lines 586-590: `"description" in gap and "search_queries" in gap and
\* gap["search_queries"]`
GapAccepted(gap) ==
    /\ gap.description
    /\ gap.search_queries.kind # "absent"
    /\ gap.search_queries.n > 0

\* lines 533-583: the early returns of the empty list
GapsStart ==
    /\ ex.pc = "start"
    /\ ex' = IF \/ IsBlank(ex.query)
                \/ IsBlank(ex.current_analysis)
                \/ ~Truthy(ex.response)
                \/ ex.gap_data.kind = "empty"
                \/ ~ex.gap_data.has_key
                \/ ex.gap_data.gaps = << >>
             THEN [ ex EXCEPT !.pc = "done" ]
             ELSE [ ex EXCEPT !.pc = "validate", !.i = 1 ]
    /\ UNCHANGED <<config, request, api, store, now, dispatched, invokes, w,
                   loop, writes, gw>>

\* lines 585-593, one iteration: `"description" in gap` on an element that
\* is null raises TypeError, which lines 603-606 answer with []
GapsValidate ==
    /\ ex.pc = "validate"
    /\ ex.i <= Len(ex.gap_data.gaps)
    /\ LET gap == ex.gap_data.gaps[ex.i]
       IN  ex' = IF gap.kind = "null"
                 THEN [ ex EXCEPT !.pc = "done", !.result = << >> ]
                 ELSE IF GapAccepted(gap)
                 THEN [ ex EXCEPT !.valid_gaps = Append(@, gap), !.i = @ + 1 ]
                 ELSE [ ex EXCEPT !.i = @ + 1 ]
    /\ UNCHANGED <<config, request, api, store, now, dispatched, invokes, w,
                   loop, writes, gw>>

\* lines 595-596
GapsReturn ==
    /\ ex.pc = "validate"
    /\ ex.i > Len(ex.gap_data.gaps)
    /\ ex' = [ ex EXCEPT !.pc = "done", !.result = ex.valid_gaps ]
    /\ UNCHANGED <<config, request, api, store, now, dispatched, invokes, w,
                   loop, writes, gw>>

----------------------------------------------------------------------------
(* Two workers on one job (research_processor.py, process) *)

Workers == { 1, 2 }

\* the status update a worker issues at a point of process(), and the point
\* it goes to: lines 102, 105 and 111, 116 and 171, 119 and 122
WorkerWrites(at) ==
    CASE at = "process" ->
           { [ status |-> PROCESSING,
               message |-> <<"Retrieving EQT portfolio data">>,
               result |-> NoneVal, error |-> NoneVal, to |-> "fetched" ] }
      [] at = "fetched" ->
           { [ status |-> FAILED, message |-> NoneVal, result |-> NoneVal,
               error |-> <<"Failed to access portfolio data">>,
               to |-> "processed" ],
             [ status |-> PROCESSING,
               message |-> <<"Identifying company to research">>,
               result |-> NoneVal, error |-> NoneVal, to |-> "identified" ] }
      [] at = "identified" ->
           { [ status |-> PROCESSING,
               message |-> <<"Generating general response">>,
               result |-> NoneVal, error |-> NoneVal, to |-> "fallback" ],
             [ status |-> FAILED, message |-> NoneVal, result |-> NoneVal,
               error |-> <<"Research error: ", "boom">>,
               to |-> "processed" ] }
      [] at = "fallback" ->
           { [ status |-> COMPLETED, message |-> <<"Research complete">>,
               result |-> <<"answer">>, error |-> NoneVal,
               to |-> "processed" ],
             [ status |-> FAILED, message |-> NoneVal, result |-> NoneVal,
               error |-> <<"Failed to generate response">>,
               to |-> "processed" ] }
      [] OTHER -> {}

\* one update_job_status call of one of the workers; update_item is atomic
\* on the item, so the calls of the two workers interleave as wholes; ex
\* keeps where each worker is and what its last call returned
WorkerStep ==
    \E k \in Workers, ok \in BOOLEAN :
        \E wr \in WorkerWrites(ex.at[k]) :
            /\ StatusWrite(JobId, wr.status, wr.message, wr.result, wr.error, ok)
            /\ ex' = [ ex EXCEPT !.at[k] = wr.to, !.by = k, !.result = ok ]
            /\ UNCHANGED <<config, request, api, dispatched, invokes, w, loop,
                           gw>>

----------------------------------------------------------------------------
(* The site scraper (utils/web_utils.py, scrape_website) *)

\* the pages of a site, named by their URLs; page 1 is the start URL
SitePages == 1..MaxPages

\* the same-site links of the site that pass the tests of lines 60 and 68,
\* in the order they stand in the pages; an anchor may stand twice. Only the
\* links of pages that some chain of links leads to from the start URL are
\* listed: the others are on pages no call can see
SiteLinks ==
    { edges \in SeqsUpTo([ from : SitePages, to : SitePages ], MaxLinks) :
        \A i \in DOMAIN edges :
            \/ edges[i].from = 1
            \/ \E j \in 1..(i - 1) : edges[j].to = edges[i].from }

\* the full_url of the anchors of page p
RECURSIVE LinksOf(_, _)
LinksOf(edges, p) ==
    IF edges = << >> THEN << >>
    ELSE (IF Head(edges).from = p THEN << Head(edges).to >> ELSE << >>)
         \o LinksOf(Tail(edges), p)

\* the pages whose fetch fails (a status other than 200 or an exception of
\* requests.get)
FailingSets == SUBSET SitePages

\* one call: the site, the pages whose fetch fails, whether the URL starts
\* with http:// or https://, and max_depth
ScrapeInputs ==
    [ pc : {"start"}, edges : SiteLinks, failing : FailingSets,
      http : {TRUE}, max_depth : 0..MaxDepth, current_depth : {1},
      links_to_visit : { <<1>> }, visited_urls : { {} },
      fetched : { << >> }, all_text : { << >> }, result : { << >> } ]
        \cup [ pc : {"start"}, edges : { << >> }, failing : { {} },
               http : {FALSE}, max_depth : 0..MaxDepth, current_depth : {1},
               links_to_visit : { <<1>> }, visited_urls : { {} },
               fetched : { << >> }, all_text : { << >> }, result : { << >> } ]

\* a faulty variant: no URL counts as visited
AlreadyVisitedNever(url, visited_urls) == FALSE

\* line 35: `url in visited_urls`
AlreadyVisited(url, visited_urls) == url \in visited_urls

\* the links line 68 keeps of those of the page
RECURSIVE NotVisited(_, _)
NotVisited(links, visited_urls) ==
    IF links = << >> THEN << >>
    ELSE (IF Head(links) \in visited_urls THEN << >> ELSE << Head(links) >>)
         \o NotVisited(Tail(links), visited_urls)

\* extract_text_and_links (lines 24-78) on the scraper's state s: the state
\* after the call, with the links it returns in new
ExtractTextAndLinks(s, url, depth) ==
    IF depth > s.max_depth \/ AlreadyVisited(url, s.visited_urls)
    THEN [ s EXCEPT !.new = << >> ]
    ELSE LET seen == s.visited_urls \cup {url}
             got == Append(s.fetched, [ url |-> url, depth |-> depth ])
         IN  IF url \in s.failing
             THEN [ s EXCEPT !.visited_urls = seen, !.fetched = got,
                             !.new = << >> ]
             ELSE [ s EXCEPT !.visited_urls = seen, !.fetched = got,
                             !.all_text = Append(@, url),
                             !.new = NotVisited(LinksOf(s.edges, url), seen) ]

\* lines 94-96: the for loop over links_to_visit, from the i-th link on
RECURSIVE ForLinks(_, _, _, _)
ForLinks(s, links, i, new_links) ==
    IF i > Len(links) THEN [ s EXCEPT !.new = new_links ]
    ELSE LET after == ExtractTextAndLinks(s, links[i], s.current_depth)
         IN  ForLinks(after, links, i + 1, new_links \o after.new)

\* lines 81-89
ScrapeStart ==
    /\ ex.pc = "start"
    /\ ex' = IF ~ex.http
             THEN [ ex EXCEPT !.pc = "done", !.result = << >> ]
             ELSE [ ex EXCEPT !.pc = "while" ]
    /\ UNCHANGED <<config, request, api, store, now, dispatched, invokes, w,
                   loop, writes, gw>>

\* lines 91-99, one iteration of the while loop
ScrapeLevel ==
    /\ ex.pc = "while"
    /\ ex.current_depth <= ex.max_depth
    /\ ex.links_to_visit # << >>
    /\ LET s == [ f \in DOMAIN ex \cup {"new"} |->
                    IF f = "new" THEN << >> ELSE ex[f] ]
           after == ForLinks(s, ex.links_to_visit, 1, << >>)
       IN  ex' = [ ex EXCEPT !.visited_urls = after.visited_urls,
                             !.fetched = after.fetched,
                             !.all_text = after.all_text,
                             !.links_to_visit = after.new,
                             !.current_depth = @ + 1 ]
    /\ UNCHANGED <<config, request, api, store, now, dispatched, invokes, w,
                   loop, writes, gw>>

\* lines 91 and 101-104: the loop is left and the texts are joined
ScrapeReturn ==
    /\ ex.pc = "while"
    /\ ~(ex.current_depth <= ex.max_depth /\ ex.links_to_visit # << >>)
    /\ ex' = [ ex EXCEPT !.pc = "done", !.result = ex.all_text ]
    /\ UNCHANGED <<config, request, api, store, now, dispatched, invokes, w,
                   loop, writes, gw>>

----------------------------------------------------------------------------
(* The offline PDF tool (preprocess-data/pdf_processor_bedrock.py,
   process_image_with_bedrock) *)

\* line 102: max_retries = 3
MaxRetries == 3

\* how one bedrock_client.converse request can end: with a response, with a
\* ClientError that has an error code and a message that may name 503 or
\* 429, or with an exception that is no ClientError
ConverseOutcomes ==
    { [ kind |-> "response", code |-> "", message |-> << >> ],
      [ kind |-> "exception", code |-> "", message |-> << >> ] }
        \cup [ kind : {"ClientError"},
               code : {"ServiceUnavailable", "ThrottlingException",
                       "AccessDeniedException"},
               message : { <<"denied">>, <<"503">>, <<"429">> } ]

\* a faulty variant: every client error is retried
RetryableAlways(err) == TRUE

\* lines 123 and 131: the error code, or the number in the message
Retryable(err) ==
    \/ err.code = "ServiceUnavailable" \/ err.message = <<"503">>
    \/ err.code = "ThrottlingException" \/ err.message = <<"429">>

\* one call: the requests sent so far with their outcomes
PdfInit ==
    [ pc |-> "while", retry_attempts |-> 0, requests |-> << >>,
      result |-> [ kind |-> "none", text |-> << >> ] ]

\* lines 104-143, one iteration of the while loop: one request
PdfRequest ==
    /\ ex.pc = "while"
    /\ ex.retry_attempts < MaxRetries
    /\ \E out \in ConverseOutcomes :
         LET sent == Append(ex.requests, out)
         IN  ex' = CASE out.kind = "response" ->
                          [ ex EXCEPT !.pc = "done", !.requests = sent,
                                      !.result = [ kind |-> "content",
                                                   text |-> <<"page text">> ] ]
                     [] out.kind = "exception" ->
                          [ ex EXCEPT !.pc = "raised", !.requests = sent ]
                     [] OTHER ->
                          IF Retryable(out)
                          THEN [ ex EXCEPT !.requests = sent,
                                           !.retry_attempts = @ + 1 ]
                          ELSE [ ex EXCEPT !.pc = "done", !.requests = sent,
                                           !.result = [ kind |-> "error",
                                                        text |-> out.message ] ]
    /\ UNCHANGED <<config, request, api, store, now, dispatched, invokes, w,
                   loop, writes, gw>>

\* lines 104 and 145-149: the loop is left after max_retries failed requests
PdfGiveUp ==
    /\ ex.pc = "while"
    /\ ~(ex.retry_attempts < MaxRetries)
    /\ ex' = [ ex EXCEPT !.pc = "done",
                         !.result = [ kind |-> "error",
                                      text |-> <<"Failed after 3 retries">> ] ]
    /\ UNCHANGED <<config, request, api, store, now, dispatched, invokes, w,
                   loop, writes, gw>>

----------------------------------------------------------------------------
(* The specification of one submission and its job *)

GwIdle == [ pc |-> "idle" ]

ExIdle == [ pc |-> "idle" ]

IdleConfig == [ api_table |-> TRUE, processor |-> TRUE, w_table |-> TRUE,
                rounds |-> 1 ]

IdleRequest == [ query |-> << >>, deep_research |-> FALSE, user |-> "anonymous" ]

\* nothing but the component under study runs
PipelineIdle ==
    /\ config = IdleConfig
    /\ request = IdleRequest
    /\ api = [ pc |-> "done", response |-> NoResponse ]
    /\ store = NoItems
    /\ now = 0
    /\ dispatched = << >>
    /\ invokes = << >>
    /\ w = WInit
    /\ loop = LoopOff
    /\ writes = << >>

Init ==
    /\ config \in Configs
    /\ request \in Requests
    /\ api = ApiInit
    /\ store = NoItems
    /\ now = 0
    /\ dispatched = << >>
    /\ invokes = << >>
    /\ w = WInit
    /\ loop = LoopOff
    /\ writes = << >>
    /\ gw = GwIdle
    /\ ex = ExIdle

Next ==
    \/ ApiValidate
    \/ ApiCreateJob
    \/ ApiDispatch
    \/ ApiReturn
    \/ LambdaHandler
    \/ ProcessFetch
    \/ ProcessIdentify
    \/ ProcessGather
    \/ ProcessFallback
    \/ ProcessAnalyze
    \/ ProcessDeep
    \/ LoopIdentify
    \/ LoopResearch
    \/ LoopIncorporate
    \/ ProcessComplete
    \/ ProcessExcept
    \/ HandlerReturn

Spec == Init /\ [][Next]_vars

----------------------------------------------------------------------------
(* The specification of one call of get_bedrock_response *)

InitGateway ==
    /\ PipelineIdle
    /\ gw \in GwInputs
    /\ ex = ExIdle

NextGateway ==
    \/ GwValidate
    \/ GwClient
    \/ GwConverse
    \/ GwRetry
    \/ GwExtract

SpecGateway == InitGateway /\ [][NextGateway]_vars

----------------------------------------------------------------------------
(* The specification of one call of extract_structured_data *)

InitExtract ==
    /\ PipelineIdle
    /\ gw = GwIdle
    /\ ex \in [ pc : {"call"}, text : Texts, result : {EmptyDict} ]

NextExtract == ExtractCall

SpecExtract == InitExtract /\ [][NextExtract]_vars

----------------------------------------------------------------------------
(* The specification of one call of identify_company_in_query *)

InitResolve ==
    /\ PipelineIdle
    /\ gw = GwIdle
    /\ ex \in [ pc : {"identify"}, text : Texts, result : {NoneResult} ]

NextResolve == IdentifyCall

SpecResolve == InitResolve /\ [][NextResolve]_vars

----------------------------------------------------------------------------
(* The specification of one call of perform_research *)

InitResearch ==
    /\ PipelineIdle
    /\ gw = GwIdle
    /\ ex \in ResearchInputs

NextResearch ==
    \/ ResearchStart
    \/ ResearchGap
    \/ ResearchReturn

SpecResearch == InitResearch /\ [][NextResearch]_vars

----------------------------------------------------------------------------
(* The specification of one call of query_internal_knowledge_base *)

InitKb ==
    /\ PipelineIdle
    /\ gw = GwIdle
    /\ ex \in KbInputs

NextKb ==
    \/ KbStart
    \/ KbSearch
    \/ KbReturn

SpecKb == InitKb /\ [][NextKb]_vars

----------------------------------------------------------------------------
(* The specification of the job store under a sequence of status updates *)

\* the job exists (create_job, db_utils.py lines 43-90) or not
InitStore ==
    /\ config = IdleConfig
    /\ request = IdleRequest
    /\ api = [ pc |-> "done", response |-> NoResponse ]
    /\ store \in { NoItems, CreateJobPut(NoItems, JobId, "anonymous", <<"q">>, 0) }
    /\ now = 1
    /\ dispatched = << >>
    /\ invokes = << >>
    /\ w = WInit
    /\ loop = LoopOff
    /\ writes = << >>
    /\ gw = GwIdle
    /\ ex = ExIdle

SpecStore == InitStore /\ [][StoreUpdate]_vars

----------------------------------------------------------------------------
(* The specification of the worker on one job, from the environment text of
   RESEARCH_ROUNDS on *)

\* the job exists and its invocation is queued; the configuration is loaded
\* from the environment (config.py lines 24-42)
InitBudget ==
    /\ \E env \in EnvTexts :
         /\ LoadRounds(env) <= MaxRounds
         /\ config = [ api_table |-> TRUE, processor |-> TRUE, w_table |-> TRUE,
                       rounds |-> LoadRounds(env), env |-> env ]
    /\ request \in [ query : { <<"q">> }, deep_research : BOOLEAN,
                      user : { "anonymous" } ]
    /\ api = [ pc |-> "done", response |-> NoResponse ]
    /\ store = CreateJobPut(NoItems, JobId, request.user, request.query, 0)
    /\ now = 1
    /\ dispatched = << Payload(JobId, request.user, request.query,
                               request.deep_research) >>
    /\ invokes = dispatched
    /\ w = WInit
    /\ loop = LoopOff
    /\ writes = << >>
    /\ gw = GwIdle
    /\ ex = ExIdle

NextBudget ==
    \/ LambdaHandler
    \/ ProcessFetch
    \/ ProcessIdentify
    \/ ProcessGather
    \/ ProcessFallback
    \/ ProcessAnalyze
    \/ ProcessDeep
    \/ LoopIdentify
    \/ LoopResearch
    \/ LoopIncorporate
    \/ ProcessComplete
    \/ ProcessExcept
    \/ HandlerReturn

SpecBudget == InitBudget /\ [][NextBudget]_vars

----------------------------------------------------------------------------
(* The specification of one call of identify_knowledge_gaps *)

InitGaps ==
    /\ PipelineIdle
    /\ gw = GwIdle
    /\ ex \in GapsInputs

NextGaps ==
    \/ GapsStart
    \/ GapsValidate
    \/ GapsReturn

SpecGaps == InitGaps /\ [][NextGaps]_vars

----------------------------------------------------------------------------
(* The specification of two workers invoked for the same job *)

InitWorkers ==
    /\ config = IdleConfig
    /\ request = IdleRequest
    /\ api = [ pc |-> "done", response |-> NoResponse ]
    /\ store = CreateJobPut(NoItems, JobId, "anonymous", <<"q">>, 0)
    /\ now = 1
    /\ dispatched = << >>
    /\ invokes = << >>
    /\ w = WInit
    /\ loop = LoopOff
    /\ writes = << >>
    /\ gw = GwIdle
    /\ ex = [ pc |-> "workers", at |-> [ k \in Workers |-> "process" ],
              by |-> 0, result |-> FALSE ]

NextWorkers == WorkerStep

SpecWorkers == InitWorkers /\ [][NextWorkers]_vars

----------------------------------------------------------------------------
(* The specification of one call of scrape_website; the call is not
   suspended for ever: requests.get has a timeout (line 43) *)

InitScrape ==
    /\ PipelineIdle
    /\ gw = GwIdle
    /\ ex \in ScrapeInputs

NextScrape ==
    \/ ScrapeStart
    \/ ScrapeLevel
    \/ ScrapeReturn

SpecScrape == InitScrape /\ [][NextScrape]_vars /\ WF_vars(NextScrape)

----------------------------------------------------------------------------
(* The specification of one call of process_image_with_bedrock *)

InitPdf ==
    /\ PipelineIdle
    /\ gw = GwIdle
    /\ ex = PdfInit

NextPdf ==
    \/ PdfRequest
    \/ PdfGiveUp

SpecPdf == InitPdf /\ [][NextPdf]_vars

----------------------------------------------------------------------------
(* Properties *)

Last(s) == s[Len(s)]

Terminal == { COMPLETED, FAILED }

JobCreated == JobId \in DOMAIN store

\* the dispatches the platform accepted: those queued and the one the worker
\* took
Enqueued == Len(dispatched) + (IF w.pc = "idle" THEN 0 ELSE 1)

\* C1: in every job record the result and the error are never both present;
\* both are absent while the job is Pending or Processing; a Completed job
\* has a result and no error; a Failed job has an error and no result.
JobRecordInvariant ==
    \A j \in DOMAIN store :
        LET item == store[j]
        IN  /\ ~(Has(item, "result") /\ Has(item, "error"))
            /\ item.status \in {PENDING, PROCESSING}
                 => ~Has(item, "result") /\ ~Has(item, "error")
            /\ item.status = COMPLETED
                 => Has(item, "result") /\ ~Has(item, "error")
            /\ item.status = FAILED
                 => Has(item, "error") /\ ~Has(item, "result")

\* C1 happens: the worker returned from a job it completed, and the record
\* carries the result
JobCompletedWithResult ==
    /\ w.pc = "returned"
    /\ JobCreated
    /\ store[JobId].status = COMPLETED
    /\ Has(store[JobId], "result")
    /\ store[JobId].result = w.analysis

\* C2: a worker invocation for a created job that has returned has written
\* Completed or Failed, whatever the control path (construction failures of
\* the pipeline included); it never returns with the job left Pending or
\* Processing.
WorkerEndsTerminal ==
    (w.pc = "returned" /\ JobCreated)
        => /\ writes # << >>
           /\ Last(writes).status \in Terminal

Rank(status) ==
    CASE status = PENDING -> 0
      [] status = PROCESSING -> 1
      [] status \in Terminal -> 2

StatusStep ==
    /\ (~JobCreated /\ JobId \in DOMAIN store') => store'[JobId].status = PENDING
    /\ JobCreated =>
         /\ JobId \in DOMAIN store'
         /\ Rank(store'[JobId].status) >= Rank(store[JobId].status)
         /\ store[JobId].status \in Terminal
              => store'[JobId].status = store[JobId].status
    /\ writes' # writes =>
         /\ JobCreated
         /\ writes # << >> => Last(writes).status \notin Terminal
         /\ Len(writes') = Len(writes) + 1
         /\ SubSeq(writes', 1, Len(writes)) = writes
         /\ Last(writes').status # PENDING
         /\ Last(writes').status \in Terminal
              => \E k \in 1..Len(writes) : writes[k].status = PROCESSING

\* C3: a job is created Pending and its status only moves forward, Pending to
\* Processing to Completed or Failed; every terminal status write comes after
\* at least one Processing write, and after a terminal write no status is
\* written again.
StatusMovesForward == [][StatusStep]_vars

\* C3 happens: the record went from Pending through Processing to a terminal
\* status, which was the last write
JobWentThroughProcessing ==
    /\ JobCreated
    /\ Len(writes) >= 2
    /\ writes[1].status = PROCESSING
    /\ Last(writes).status \in Terminal
    /\ store[JobId].status = Last(writes).status
    /\ w.pc = "returned"

\* C4: perform_deep_research_rounds runs at most max_rounds rounds (the
\* worker's clamped budget), and runs no round after one that found no gaps,
\* produced no sections, or left the analysis unchanged.
LoopBounded ==
    /\ loop.round_num <= loop.rounds
    /\ loop.rounds <= MaxRounds
    /\ loop.pc \in {"identify", "research", "incorporate"}
         => loop.rounds = ClampRounds(config.rounds) /\ loop.round_num >= 1
    /\ loop.last \in StopOutcomes => loop.pc = "done"

\* C4 happens: a round stopped the loop while the budget had rounds left
LoopStoppedEarly ==
    /\ loop.pc = "done"
    /\ loop.last \in StopOutcomes
    /\ loop.round_num >= 1
    /\ loop.round_num < loop.rounds

\* C5: get_bedrock_response never raises: when the call is over it has
\* returned, and after any failure (blank prompt, client construction,
\* timeout, throttling, access denied, resource not found, parameter
\* validation, other client errors, a malformed response) it returned None.
GatewayNeverRaises ==
    gw.pc = "done"
        => /\ gw.outcome = "returned"
           /\ gw.response \notin {"text", "no_text"} => gw.value = NoneVal

\* the text holds a well-formed JSON object inside a ```json fenced block:
\* the tagged fence, the object, a closing fence, with only whitespace
\* between them; anything may come before and after
HasJsonBlock(text) ==
    \E i, j, k \in 1..Len(text) :
        /\ i < j /\ j < k
        /\ text[i] = "FJ" /\ text[j] = "O" /\ text[k] \in FenceTokens
        /\ \A m \in (i + 1)..(k - 1) : m # j => text[m] = " "

\* C6: extract_structured_data is total: for any text it returns a structure
\* (a dictionary or a list) and never raises, the empty dictionary when nothing matches
\* or parsing fails, and the same result whenever it is called again.
ExtractReturnsStructure ==
    ex.pc = "done"
        => /\ ex.result.kind \in {"dict", "list"}
           /\ ex.result = ExtractStructuredData(ex.text)
           /\ (Truthy(ex.text) /\ ~FencedMatch(ex.text).found
                 /\ ~BraceMatch(ex.text).found) => ex.result = EmptyDict

\* C7: for every text that holds a well-formed JSON object inside a ```json
\* fenced block, with arbitrary prose before and after, the extractor returns
\* exactly that object.
FencedObjectReturned ==
    (ex.pc = "done" /\ Truthy(ex.text) /\ HasJsonBlock(ex.text))
        => ex.result = TheObject

\* the positions of the Failed writes in the log
FailWrites == { k \in 1..Len(writes) : writes[k].status = FAILED }

\* C8: an exception escaping any stage of process() is caught once, the job
\* is moved to Failed with an error text that contains the exception's
\* message; every Failed job carries a non-empty error string.
ExceptionFailsJob ==
    /\ (w.pc = "processed" /\ w.exc # NoneVal)
         => /\ Last(writes).status = FAILED
            /\ Contains(Last(writes).error, <<"Research error: ">>)
            /\ Contains(Last(writes).error, w.exc)
            /\ FailWrites = { Len(writes) }
            /\ ~w.success
    /\ \A k \in FailWrites : Truthy(writes[k].error)
    /\ \A j \in DOMAIN store :
         store[j].status = FAILED
            => Has(store[j], "error") /\ Truthy(store[j].error)

\* C8 happens: a stage raised "boom", and the record is Failed with the
\* message inside its error text
ExceptionRecorded ==
    /\ w.pc = "processed"
    /\ w.exc = <<"boom">>
    /\ JobCreated
    /\ store[JobId].status = FAILED
    /\ store[JobId].error = <<"Research error: ", "boom">>

\* C9: a submission with an empty query is answered with a validation error;
\* no job record is created and nothing is dispatched.
EmptyQueryRejected ==
    ~Truthy(request.query)
        => /\ store = NoItems
           /\ invokes = << >>
           /\ dispatched = << >>
           /\ w.pc = "idle"
           /\ api.pc = "done"
                => /\ api.response.status = "error"
                   /\ api.response.error = <<"Missing query parameter">>

\* C9 happens: the empty query was submitted and answered
EmptyQueryAnswered ==
    /\ request.query = << >>
    /\ api.pc = "done"
    /\ api.response.status = "error"

ReturnedPending == api.pc = "done" /\ api.response.status = "pending"

SubmittedPayload ==
    Payload(JobId, request.user, request.query, request.deep_research)

\* C10 as stated: every submission that returned {job_id, status: pending}
\* has created the job record and enqueued exactly one dispatch for it.
PendingMeansOneDispatch ==
    ReturnedPending => JobCreated /\ Enqueued = 1

\* C10, amended: every submission that returned {job_id, status: pending} has
\* created a Pending job record and then issued exactly one asynchronous
\* invoke call carrying the same job_id, user_id, query and deep_research; at
\* most one dispatch is enqueued (none when the invoke call raised, which is
\* logged and not reported); the worker takes what was submitted, and the
\* submitter returns without waiting for it.
PendingMeansOneInvoke ==
    /\ invokes # << >> => JobCreated
    /\ (JobCreated /\ writes = << >>) => store[JobId].status = PENDING
    /\ Enqueued <= Len(invokes)
    /\ \A k \in 1..Len(dispatched) : dispatched[k] = SubmittedPayload
    /\ w.pc \notin {"idle", "returned"}
         => /\ w.job_id = JobId
            /\ w.deep_research = request.deep_research
            /\ w.query = Strip(request.query)
    /\ ReturnedPending
         => /\ JobCreated
            /\ store[JobId].jobId = api.response.job_id
            /\ store[JobId].query = request.query
            /\ store[JobId].userId = request.user
            /\ invokes = << SubmittedPayload >>

\* C10 happens: the submission returned pending while its dispatch is still
\* queued and the worker has not started
PendingBeforeWorker ==
    /\ ReturnedPending
    /\ dispatched = << SubmittedPayload >>
    /\ w.pc = "idle"
    /\ store[JobId].status = PENDING

\* the worker issued a status write with this message
Wrote(message) == \E k \in 1..Len(writes) : writes[k].message = message

\* process() is over and nothing unexpected was raised in it
ProcessEnded == w.pc \in {"processed", "returned"} /\ w.exc = NoneVal

\* the entity resolver was called and returned none
ResolvedNone ==
    /\ Wrote(<<"Identifying company to research">>)
    /\ w.pc \notin {"fetched", "except"}
    /\ w.exc = NoneVal
    /\ w.company_data = NoCompany

SynthesisAbsent ==
    /\ Wrote(<<"Analyzing collected information">>)
    /\ w.pc \in {"analyzed", "processed", "returned"}
    /\ w.exc = NoneVal
    /\ w.analysis = NoneVal

\* C12: when the gateway returns nothing for the initial synthesis the job
\* is failed and the Knowledge-Gap Loop is never entered, whatever the
\* deep_research flag is.
AbsentSynthesisFails ==
    SynthesisAbsent
        => /\ loop = LoopOff
           /\ \A k \in 1..Len(writes) :
                /\ writes[k].status # COMPLETED
                /\ writes[k].message
                     # <<"Performing deep research on ">> \o CompanyName(w.company_data)
           /\ w.pc \in {"processed", "returned"}
                => /\ Last(writes).status = FAILED
                   /\ Last(writes).error = <<"Failed to analyze company information">>
                   /\ ~w.success

\* C12 happens: deep research was asked for, the synthesis came back absent,
\* and the job is Failed
AbsentSynthesisFailedDeepJob ==
    /\ SynthesisAbsent
    /\ w.deep_research
    /\ w.pc = "returned"
    /\ store[JobId].status = FAILED
    /\ store[JobId].error = <<"Failed to analyze company information">>

Malformed(url) == Truthy(url) /\ ~StartsWithHttp(url)

\* the evidence stage ran for a resolved entity and returned
Gathered ==
    /\ w.company_data # NoCompany
    /\ w.pc \in {"gathered", "analyzed", "deep", "processed", "returned"}
    /\ w.exc = NoneVal

BothUrlsMalformed ==
    /\ Gathered
    /\ Malformed(Get(w.company_data, "link"))
    /\ Malformed(Get(w.company_data, "website"))

\* the text names one of the entity's URLs
MentionsUrl(text) ==
    \/ Contains(text, Get(w.company_data, "link"))
    \/ Contains(text, Get(w.company_data, "website"))

\* C13 as stated: when an entity is resolved and both of its site URLs are
\* malformed, no content is fetched and the job is failed with an error text
\* that mentions the invalid URL.
MalformedUrlsNamedInError ==
    BothUrlsMalformed
        => /\ w.fetched = << >>
           /\ w.pc \in {"processed", "returned"}
                => /\ Last(writes).status = FAILED
                   /\ MentionsUrl(Last(writes).error)

\* C13, amended: when an entity is resolved and both of its site URLs are
\* malformed, no content is fetched and the job is failed with the error
\* text "Failed to gather company information"; the invalid URL is written
\* to the log only and the error text does not mention it.
MalformedUrlsFailJob ==
    BothUrlsMalformed
        => /\ w.fetched = << >>
           /\ w.eqt_content = NoneVal /\ w.company_content = NoneVal
           /\ w.pc \in {"gathered", "processed", "returned"}
           /\ \A k \in 1..Len(writes) : writes[k].status # COMPLETED
           /\ ~Wrote(<<"Analyzing collected information">>)
           /\ w.pc \in {"processed", "returned"}
                => /\ Last(writes).status = FAILED
                   /\ Last(writes).error = <<"Failed to gather company information">>
                   /\ ~MentionsUrl(Last(writes).error)

\* C13 happens: both URLs of the resolved entity were malformed and the job
\* is Failed
MalformedUrlsJobFailed ==
    /\ BothUrlsMalformed
    /\ w.pc = "returned"
    /\ store[JobId].status = FAILED
    /\ store[JobId].error = <<"Failed to gather company information">>

BothUrlsWellFormed ==
    /\ Gathered
    /\ StartsWithHttp(Get(w.company_data, "link"))
    /\ StartsWithHttp(Get(w.company_data, "website"))

\* C14: when both URLs of the entity are well-formed, an empty text from the
\* content fetcher for either site is not fatal: the job goes on to the
\* knowledge-base query and the initial synthesis with the text obtained; the
\* evidence stage fails a job only for URL validation errors.
EmptyFetchNotFatal ==
    (BothUrlsWellFormed
       /\ (Truthy(w.eqt_content) \/ Truthy(w.company_content)))
        => /\ \A k \in 1..Len(writes) :
                writes[k].error # <<"Failed to gather company information">>
           /\ w.pc \in {"processed", "returned"}
                => Wrote(<<"Analyzing collected information">>)

\* the failures of the first request after which nothing is sent again
NotRetried ==
    \/ gw.first \in {"ThrottlingException", "AccessDeniedException",
                     "ParamValidationError"}
    \/ /\ gw.first = "ModelTimeoutException"
       /\ gw.model_size # "LARGE" \/ gw.max_tokens <= RetryTokenThreshold

\* C15: one call of get_bedrock_response sends at most two requests; the
\* second is sent only after a model timeout of the first on the largest
\* tier with a token budget above 2000, and carries the budget 2000; after
\* throttling, access-denied or parameter-validation failures, and after a
\* timeout on a smaller tier or with a budget of at most 2000, nothing is
\* sent again and the result is absent.
AtMostOneRetry ==
    /\ Len(gw.sent) <= 2
    /\ gw.sent # << >> => gw.sent[1] = gw.max_tokens
    /\ Len(gw.sent) = 2
         => /\ gw.first = "ModelTimeoutException"
            /\ gw.model_size = "LARGE"
            /\ gw.max_tokens > 2000
            /\ gw.sent[2] = 2000
    /\ gw.pc = "retry" => gw.first = "ModelTimeoutException" /\ Len(gw.sent) = 1
    /\ NotRetried
         => /\ Len(gw.sent) = 1
            /\ gw.pc = "done"
            /\ gw.outcome = "returned"
            /\ gw.value = NoneVal

\* C15 happens: the first request timed out on the largest tier with the
\* default budget, and the call ended after a second request with 2000
RetriedWithReducedBudget ==
    /\ gw.pc = "done"
    /\ gw.first = "ModelTimeoutException"
    /\ gw.model_size = "LARGE"
    /\ gw.sent = <<DefaultMaxTokens, ReducedMaxTokens>>

\* what process() line 115 makes of the resolver's result: an empty
\* dictionary is no entity
Entity(result) == IF result = EmptyDict THEN NoneResult ELSE result

ValidationErrorMet ==
    \/ /\ w.pc = "returned"
       /\ w.statusCode = 500
       /\ w.exc \in { <<"Invalid or empty query parameter">>,
                      <<"JOBS_TABLE_NAME environment variable is required">> }
    \/ /\ Gathered
       /\ w.pc \in {"processed", "returned"}
       /\ \/ Malformed(Get(w.company_data, "link"))
          \/ Malformed(Get(w.company_data, "website"))

\* C17: every validation error met while serving a job (an empty or
\* whitespace-only query, a malformed entity URL, a missing required
\* configuration value) is fatal to the job and is reported by moving the job
\* to Failed with a specific error message; the failing step is not retried.
ValidationErrorsFailJob ==
    (JobCreated /\ ValidationErrorMet)
        => /\ writes # << >>
           /\ Last(writes).status = FAILED
           /\ Truthy(Last(writes).error)
           /\ Cardinality(FailWrites) = 1

\* gap i has search queries and one of its searches returned an answer
Answered(i) ==
    /\ ex.gaps[i] >= 1
    /\ \/ ex.out[i].primary = "answer"
       \/ ex.gaps[i] > 1 /\ ex.out[i].fallback = "answer"

\* C18: in perform_research a search failure for one gap (an exception or an
\* empty answer on the primary and on the fallback query) does not abort the
\* round: every other gap is still searched, and the sections of the gaps
\* that obtained an answer are returned.
GapFailureIsolated ==
    (ex.pc = "done" /\ ex.tavily_ok)
        => /\ \A i \in 1..Len(ex.gaps) :
                /\ ex.gaps[i] >= 1
                     => \E k \in 1..Len(ex.searches) :
                          ex.searches[k] = [ gap |-> i, query |-> "primary" ]
                /\ Answered(i)
                     <=> \E k \in 1..Len(ex.sections) : ex.sections[k].gap = i
           /\ \A k, l \in 1..Len(ex.sections) :
                k < l => ex.sections[k].gap < ex.sections[l].gap
           /\ (\A i \in 1..Len(ex.gaps) : ex.gaps[i] >= 1)
                => ex.sections
                     = PerformResearch(ex.gaps, ex.tavily_ok,
                                       [ i \in 1..Len(ex.gaps) |-> ex.out[i] ])

\* C18 happens: both searches of the first gap raised, the second gap was
\* searched all the same, and its section is what is returned
SecondGapAnsweredAfterFailure ==
    /\ ex.pc = "done"
    /\ ex.gaps = <<2, 1>>
    /\ ex.out[1] = [ primary |-> "raise", fallback |-> "raise" ]
    /\ ex.searches = << [ gap |-> 1, query |-> "primary" ],
                        [ gap |-> 1, query |-> "fallback" ],
                        [ gap |-> 2, query |-> "primary" ] >>
    /\ ex.sections = << [ gap |-> 2, via |-> "primary" ] >>

----------------------------------------------------------------------------
(* C19 *)

\* perform_deep_research_rounds has returned to process(), which has not
\* yet stored the result: w.analysis is still the analysis the loop was
\* started with
LoopReturned == w.pc = "deep" /\ loop.pc = "done"

\* the loop has a budget of at least two rounds; its first round identified
\* two gaps and research returned a section for each, and its second round
\* ran gap identification to its end and got no gap
TwoFilledThenNone ==
    /\ w.pc = "deep"
    /\ loop.rounds >= 2
    /\ Len(loop.trail) >= 2
    /\ loop.trail[1].gaps = 2
    /\ loop.trail[1].sections = 2
    /\ loop.trail[2].gaps = 0
    /\ loop.trail[2].outcome # "error"

\* C19: with deep research enabled and at least two rounds allowed, when the
\* first round identifies two gaps that are both filled and the second round
\* identifies no gap, the loop stops in the second round, the second round
\* has called neither perform_research nor incorporate_new_research, and the
\* analysis the loop returns is not the analysis it was started with.
NoGapsStopsSecondRound ==
    TwoFilledThenNone =>
        /\ loop.pc = "done"
        /\ loop.round_num = 2
        /\ Len(loop.trail) = 2
        /\ loop.trail[2].calls = {"identify"}
        /\ w.deep_research
        /\ loop.enriched # w.analysis

\* the loop returned after a first round that filled two gaps and changed the
\* analysis and a second round that found no gap
SecondRoundFoundNoGaps ==
    /\ TwoFilledThenNone
    /\ LoopReturned
    /\ loop.trail[1].outcome = "enriched"
    /\ loop.trail[2].outcome = "no_gaps"
    /\ loop.enriched = <<"A1">>
    /\ w.analysis = <<"A0">>

----------------------------------------------------------------------------
(* C20 *)

\* query_internal_knowledge_base returned None and analyze_company_info has
\* returned
KbAbsent == w.pc = "analyzed" /\ w.kb_data = NoneVal

\* C20: when the knowledge-base query returns nothing, process() fails
\* nothing: it writes the status message of the synthesis step, no Failed
\* status has been written, and the initial synthesis is what the gateway
\* returned for the synthesis prompt (absent only if that response is).
AbsentKbProceeds ==
    KbAbsent =>
        /\ Last(writes).status = PROCESSING
        /\ Last(writes).message = <<"Analyzing collected information">>
        /\ FailWrites = {}
        /\ w.analysis = (IF Truthy(w.response) THEN w.response ELSE NoneVal)

\* a synthesis obtained without knowledge-base data
SynthesisWithoutKb ==
    /\ KbAbsent
    /\ w.response = <<"A0">>
    /\ w.analysis = <<"A0">>
    /\ ~GatherFailed(w.eqt_content, w.company_content)

----------------------------------------------------------------------------
(* C21 *)

\* query_internal_knowledge_base has returned after it had its phrasings
KbSearched == ex.pc = "done" /\ ex.queries # << >>

\* C21: the knowledge-base query stage issues exactly one search per
\* phrasing, in the order of the phrasings (the reformulated phrasings, or
\* the original query alone when there are none), and the merged results
\* are in the order of the searches.
OneSearchPerPhrasing ==
    KbSearched =>
        /\ ex.queries = (IF ex.reformulated # << >> THEN ex.reformulated
                         ELSE << ex.query >>)
        /\ ex.searches = ex.queries
        /\ \A i, j \in 1..Len(ex.all_results) :
              i < j => \/ ex.all_results[i].query < ex.all_results[j].query
                       \/ /\ ex.all_results[i].query = ex.all_results[j].query
                          /\ ex.all_results[i].hit < ex.all_results[j].hit

----------------------------------------------------------------------------
(* C22 *)

\* the step is an update to Processing that returns True, with the message
\* the job record already carries in Processing
AdvanceRepeated ==
    /\ Len(writes') = Len(writes) + 1
    /\ Last(writes').status = PROCESSING
    /\ ex'.result = TRUE
    /\ JobId \in DOMAIN store
    /\ store[JobId].status = PROCESSING
    /\ store[JobId].message = Last(writes').message

\* C22 as stated: a Processing update repeated with the same message leaves
\* the job record as the first one left it.
AdvanceIdempotent == [][ AdvanceRepeated => store' = store ]_vars

\* C22: a Processing update repeated with the same message changes nothing
\* of the job record but updated_at, which takes the time of the repeated
\* call.
AdvanceIdempotentButTime ==
    [][ AdvanceRepeated =>
          store' = [ store EXCEPT ![JobId].updated_at = now ] ]_vars

\* the same Processing update has been applied twice in a row, the second
\* time with success
AdvancedTwice ==
    /\ Len(writes) >= 2
    /\ writes[Len(writes)] = writes[Len(writes) - 1]
    /\ Last(writes).status = PROCESSING
    /\ JobId \in DOMAIN store
    /\ store[JobId].status = PROCESSING
    /\ store[JobId].message = Last(writes).message
    /\ ex.result = TRUE
    /\ store[JobId].updated_at = now - 1

----------------------------------------------------------------------------
(* C23 *)

\* process() returned True: it has called _complete_job
CompleteCalled == w.pc \in {"processed", "returned"} /\ w.success

\* C23: _complete_job does not fail on an empty or whitespace-only result:
\* whatever the result, the update it issues is the one to Completed with
\* that result, and a job record in Completed carries the result it was
\* completed with, which is empty only if the result given was.
CompleteStoresResult ==
    /\ CompleteCalled =>
          /\ Last(writes).status = COMPLETED
          /\ Last(writes).result = w.analysis
    /\ (JobId \in DOMAIN store /\ store[JobId].status = COMPLETED) =>
          /\ CompleteCalled
          /\ Has(store[JobId], "result")
          /\ store[JobId].result = w.analysis

\* a job completed with a whitespace-only result
CompletedWithBlankResult ==
    /\ CompleteCalled
    /\ JobId \in DOMAIN store
    /\ store[JobId].status = COMPLETED
    /\ IsBlank(store[JobId].result)

----------------------------------------------------------------------------
(* C24 *)

\* perform_deep_research_rounds has been called
LoopInvoked == loop.pc # "off"

\* the loop is invoked only for a job with the deep_research flag, after a
\* synthesis that is not absent
LoopOnlyWhenDeep ==
    LoopInvoked =>
        /\ w.deep_research
        /\ w.pc = "deep" => Truthy(w.analysis)

\* the round budget of a constructed pipeline is the value RESEARCH_ROUNDS
\* parses to, and 1 when the variable is unset, does not parse, or parses to
\* less than 1; the loop is started with that budget
BudgetFromEnv ==
    /\ w.job_id # "" =>
          w.research_rounds =
              (IF config.env # NoneVal /\ IntParses(config.env)
                    /\ IntOf(config.env) >= 1
               THEN IntOf(config.env) ELSE 1)
    /\ loop.round_num >= 1 => loop.rounds = w.research_rounds

\* C24 as stated: the loop is invoked only with the flag set and an
\* analysis, its budget is the configured value or 1, and an invoked loop
\* always runs at least one gap-identification step.
InvokedLoopIdentifies ==
    /\ LoopOnlyWhenDeep
    /\ BudgetFromEnv
    /\ (LoopInvoked /\ loop.pc = "done") =>
          /\ Len(loop.trail) >= 1
          /\ "identify" \in loop.trail[1].calls

\* C24: the loop is invoked only with the flag set and an analysis, its
\* budget is the configured value or 1, and an invoked loop runs at least
\* one gap-identification step unless the analysis it is started with is
\* whitespace only, in which case it returns the empty text at once.
InvokedLoopIdentifiesUnlessBlank ==
    /\ LoopOnlyWhenDeep
    /\ BudgetFromEnv
    /\ (LoopInvoked /\ loop.pc = "done") =>
          IF Len(loop.trail) = 0
          THEN /\ loop.enriched = << >>
               /\ w.pc = "deep" => IsBlank(w.analysis)
          ELSE /\ "identify" \in loop.trail[1].calls
               /\ w.pc = "deep" => ~IsBlank(w.analysis)

\* a loop with the budget 2 read from the text " 2" has run both rounds
BudgetTwoUsed ==
    /\ config.env = <<" ", "2">>
    /\ w.pc = "deep"
    /\ loop.pc = "done"
    /\ loop.rounds = 2
    /\ Len(loop.trail) = 2

----------------------------------------------------------------------------
(* C25 *)

\* C25: when put_item succeeds create_job leaves a job record in Pending
\* and the submission goes on to the dispatch; when it fails the submission
\* answers with the error "Failed to create job", no job record exists and
\* no invocation of the worker is issued.
CreateFailureStopsSubmission ==
    /\ api.pc = "dispatch" =>
          /\ JobCreated
          /\ store[JobId] = NewItem(JobId, request.user, request.query, now - 1)
          /\ store[JobId].status = PENDING
    /\ api.response.status = "failed" =>
          /\ api.pc = "done"
          /\ api.response.error = <<"Failed to create job">>
          /\ ~JobCreated
          /\ invokes = << >>
          /\ Enqueued = 0
    /\ invokes # << >> => JobCreated

\* the store write failed and the submission has answered
CreateFailedAnswered ==
    /\ api.pc = "done"
    /\ api.response.status = "failed"
    /\ config.api_table
    /\ now = 1
    /\ invokes = << >>

----------------------------------------------------------------------------
(* C26 *)

\* C26: when process() returns, it returns True exactly if the job record
\* is in Completed and False exactly if the record is in Failed, also after
\* a status write that failed.
ProcessResultIsRecordStatus ==
    w.pc = "processed" =>
        /\ JobCreated
        /\ w.success <=> store[JobId].status = COMPLETED
        /\ ~w.success <=> store[JobId].status = FAILED

----------------------------------------------------------------------------
(* C27 *)

\* C27: in perform_research the fallback query of a gap is searched only
\* right after the primary search of that gap raised or returned no answer,
\* and only if the gap has a second query; a gap contributes at most one
\* section, so there are never more sections than gaps, and the sections
\* are in the order of their gaps.
FallbackOnlyAfterFailedPrimary ==
    /\ \A k \in 1..Len(ex.searches) :
          ex.searches[k].query = "fallback" =>
              /\ ex.gaps[ex.searches[k].gap] > 1
              /\ ex.out[ex.searches[k].gap].primary \in {"empty", "raise"}
              /\ k > 1
              /\ ex.searches[k - 1]
                   = [ gap |-> ex.searches[k].gap, query |-> "primary" ]
    /\ \A i \in 1..Len(ex.gaps) :
          Cardinality({ k \in 1..Len(ex.sections) : ex.sections[k].gap = i }) <= 1
    /\ Len(ex.sections) <= Len(ex.gaps)
    /\ \A k \in 1..Len(ex.sections) :
          k > 1 => ex.sections[k - 1].gap < ex.sections[k].gap

\* the first gap got its section from the fallback query after an empty
\* primary answer, the second from the primary query alone
FallbackFilledFirstGap ==
    /\ ex.pc = "done"
    /\ ex.gaps = <<2, 2>>
    /\ ex.out[1] = [ primary |-> "empty", fallback |-> "answer" ]
    /\ ex.searches = << [ gap |-> 1, query |-> "primary" ],
                        [ gap |-> 1, query |-> "fallback" ],
                        [ gap |-> 2, query |-> "primary" ] >>
    /\ ex.sections = << [ gap |-> 1, via |-> "fallback" ],
                        [ gap |-> 2, via |-> "primary" ] >>

----------------------------------------------------------------------------
(* C28 *)

\* the round that has just ended got no response to its enrichment prompt
EnrichmentAbsent == loop.trail # << >> /\ Last(loop.trail).reply = "absent"

\* a round without a response to the enrichment prompt is the last round of
\* the loop, and process() then completes the job with the analysis the
\* loop holds
AbsentEnrichmentEndsLoop ==
    /\ \A k \in 1..Len(loop.trail) :
          loop.trail[k].reply = "absent" =>
              /\ loop.trail[k].outcome = "unchanged"
              /\ k = Len(loop.trail)
              /\ loop.pc = "done"
              /\ loop.round_num = k
    /\ (EnrichmentAbsent /\ w.pc = "deep" /\ Len(loop.trail) = 1) =>
          loop.enriched = w.analysis
    /\ (EnrichmentAbsent /\ w.pc \in {"processed", "returned"}) =>
          /\ w.success
          /\ Last(writes).status = COMPLETED
          /\ Last(writes).result = loop.enriched
          /\ store[JobId].status = COMPLETED =>
                store[JobId].result = loop.enriched

\* C28: when the gateway gives no response to the enrichment prompt of a
\* round, that round leaves the analysis as it was, the loop stops in that
\* round, and the job is completed with that analysis as result.
AbsentEnrichmentKeepsAnalysis ==
    /\ []AbsentEnrichmentEndsLoop
    /\ [][ EnrichmentAbsent' /\ loop.pc = "incorporate"
             => loop'.enriched = loop.enriched ]_vars

\* the second round got no response to its enrichment prompt, and the job
\* is Completed with the analysis of the first round
CompletedWithPriorAnalysis ==
    /\ EnrichmentAbsent
    /\ Len(loop.trail) = 2
    /\ loop.trail[1].outcome = "enriched"
    /\ w.pc = "returned"
    /\ loop.enriched = <<"A1">>
    /\ store[JobId].status = COMPLETED
    /\ store[JobId].result = <<"A1">>

\* the positions of the fences of a text
Fences(text) == { i \in 1..Len(text) : text[i] \in FenceTokens }

\* what lies between the first fence and the one after it
FencedContent(text) ==
    LET i == CHOOSE a \in Fences(text) : \A b \in Fences(text) : a <= b
        j == CHOOSE a \in Fences(text) \ {i} :
                 \A b \in Fences(text) \ {i} : a <= b
    IN  SubSeq(text, i + 1, j - 1)

\* what the parser makes of a span once the comment lines are taken out
Parsed(span) == JsonLoads(RemoveComments(Strip(span)))

\* C29: extract_structured_data takes the fenced block when the text has
\* one and the bare {...} span only when it has none: with both in the text
\* the result is what the fenced block parses to, and a fenced block that
\* does not parse gives the empty structure, whatever bare span there is.
FencedBlockFirst ==
    (ex.pc = "done" /\ Truthy(ex.text))
        => /\ Cardinality(Fences(ex.text)) >= 2
                => ex.result = IF Parsed(FencedContent(ex.text)).kind
                                     = "JSONDecodeError"
                                THEN EmptyDict
                                ELSE Parsed(FencedContent(ex.text))
           /\ (/\ Cardinality(Fences(ex.text)) < 2
               /\ BraceMatch(ex.text).found
               /\ Parsed(BraceMatch(ex.text).str).kind # "JSONDecodeError")
                => ex.result = Parsed(BraceMatch(ex.text).str)

\* a fenced block that does not parse beside a bare object: the result is
\* the empty structure
UnparsedFenceBesideObject ==
    /\ ex.pc = "done"
    /\ Truthy(ex.text)
    /\ Cardinality(Fences(ex.text)) >= 2
    /\ Parsed(FencedContent(ex.text)).kind = "JSONDecodeError"
    /\ BraceMatch(ex.text).found
    /\ Parsed(BraceMatch(ex.text).str) = TheObject
    /\ ex.result = EmptyDict

\* the record is one of the catalog: same name, reference page and website
InCatalog(cd) ==
    \E i \in 1..Len(Catalog) :
        /\ Get(cd, "name") = Catalog[i].name
        /\ Get(cd, "link") = Catalog[i].link
        /\ Get(cd, "website") = Catalog[i].website

\* C30: whenever identify_company_in_query returns an entity and not none,
\* the entity is a record of the catalog it was given: its name, its
\* reference-page URL and its website URL are those of one catalog entry.
IdentifiedEntityInCatalog ==
    w.company_data # NoCompany => InCatalog(w.company_data)

\* the stages of process() in the order of lines 101-166; the general
\* answer given when no company was identified is not among them
StageRank ==
    [ fetch |-> 1, identify |-> 2, gather |-> 3, kb |-> 4, analyze |-> 5,
      loop |-> 6, complete |-> 7 ]

StageNames == [ i \in DOMAIN w.stages |-> w.stages[i].name ]

\* process() found a fatal condition after the stage that just returned
FatalCondition ==
    \/ w.pc = "fetched" /\ w.companies = << >>
    \/ /\ w.pc = "gathered"
       /\ ~Truthy(w.eqt_content) \/ ~Truthy(w.company_content)
    \/ w.pc = "analyzed" /\ ~Truthy(w.analysis)

StagesOrdered ==
    /\ \A i, j \in DOMAIN w.stages :
         (/\ i < j
          /\ w.stages[i].name \in DOMAIN StageRank
          /\ w.stages[j].name \in DOMAIN StageRank)
            => StageRank[w.stages[i].name] < StageRank[w.stages[j].name]
    /\ \A j \in DOMAIN w.stages :
         LET name == w.stages[j].name
         IN  /\ name = "fetch" => j = 1
             /\ name \in {"identify", "gather", "kb", "analyze", "loop"}
                  => /\ j > 1
                     /\ StageRank[w.stages[j - 1].name] = StageRank[name] - 1
             /\ name = "complete"
                  => /\ j > 1
                     /\ w.stages[j - 1].name \in {"analyze", "loop", "fallback"}
    /\ w.stages # << >>
         => /\ w.stages[1].writes >= 1
            /\ writes[1].status = PROCESSING
    /\ (\E i, j \in DOMAIN w.stages :
            w.stages[i].name = "loop" /\ w.stages[j].name = "complete")
         => loop.pc = "done"

\* C31: within one job the stages run strictly in the order catalog fetch,
\* entity resolution, evidence gathering, knowledge-base query, initial
\* synthesis, Knowledge-Gap Loop, completion; a stage starts only after the
\* one before it returned, the first Processing status is written before the
\* catalog fetch, and after a fatal condition (no catalog, failed
\* gathering, no synthesis) no further stage is started.
StagesInOrder ==
    /\ []StagesOrdered
    /\ [][ ((FatalCondition \/ w.pc \in {"processed", "returned"}) /\ w' # w)
             => /\ w'.stages = w.stages
                /\ w'.pc \in {"processed", "returned"} ]_vars

\* a job that went through every stage, the loop included
AllStagesRun ==
    /\ w.pc = "processed"
    /\ StageNames = <<"fetch", "identify", "gather", "kb", "analyze", "loop",
                      "complete">>
    /\ loop.trail # << >>
    /\ Last(writes).status = COMPLETED

\* the evidence gathering failed and the job was failed at once
GatheringFailedStopped ==
    /\ w.pc = "processed"
    /\ w.exc = NoneVal
    /\ StageNames = <<"fetch", "identify", "gather">>
    /\ Last(writes).error = <<"Failed to gather company information">>

\* how often a round called the gateway for a purpose
RECURSIVE CountOf(_, _)
CountOf(s, x) ==
    IF s = << >> THEN 0
    ELSE (IF Head(s) = x THEN 1 ELSE 0) + CountOf(Tail(s), x)

\* the gateway calls of the rounds from k on
RECURSIVE GatewayCalls(_, _)
GatewayCalls(trail, k) ==
    IF k > Len(trail) THEN 0
    ELSE Len(trail[k].gateway) + GatewayCalls(trail, k + 1)

\* C32: a round of the Knowledge-Gap Loop calls the gateway at most once to
\* identify gaps and at most once to enrich; it enriches only when it
\* found at least one gap and the research gave at least one section; a
\* whole loop calls the gateway at most 2 * max_rounds times.
GatewayCallsLinear ==
    /\ \A k \in DOMAIN loop.trail :
         LET round == loop.trail[k]
         IN  /\ CountOf(round.gateway, "identify") <= 1
             /\ CountOf(round.gateway, "incorporate") <= 1
             /\ Len(round.gateway) <= 2
             /\ (CountOf(round.gateway, "incorporate") = 1
                   /\ round.outcome # "error")
                  => round.gaps >= 1 /\ round.sections >= 1
    /\ CountOf(loop.gateway, "incorporate") = 1
         => Len(loop.gaps) >= 1 /\ Len(loop.sections) >= 1
    /\ Len(loop.gateway) <= 2
    /\ Len(loop.trail) <= loop.rounds
    /\ GatewayCalls(loop.trail, 1) + Len(loop.gateway) <= 2 * loop.rounds

\* a loop of two rounds that called the gateway four times
GatewayCalledFourTimes ==
    /\ loop.pc = "done"
    /\ loop.rounds = 2
    /\ GatewayCalls(loop.trail, 1) = 4
    /\ \A k \in DOMAIN loop.trail :
         loop.trail[k].gateway = <<"identify", "incorporate">>

\* a gap as the loop needs it: a description and a list of at least one
\* search query
WellFormedGap(gap) ==
    /\ gap.kind = "dict"
    /\ gap.description
    /\ gap.search_queries.kind = "list"
    /\ gap.search_queries.n >= 1

\* C33: every gap identify_knowledge_gaps returns has a description and a
\* non-empty sequence of search queries; an extracted gap that lacks either
\* is dropped and the valid gaps of the same response are kept; the result
\* is the empty list when the gateway gave no response, the extraction is
\* empty or the knowledge_gaps key is missing.
ValidGapsReturned ==
    ex.pc = "done"
        => /\ \A k \in DOMAIN ex.result : WellFormedGap(ex.result[k])
           /\ (/\ ~IsBlank(ex.current_analysis)
               /\ Truthy(ex.response)
               /\ ex.gap_data.has_key)
                => ex.result = SelectSeq(ex.gap_data.gaps, WellFormedGap)
           /\ (\/ ~Truthy(ex.response)
               \/ ex.gap_data.kind = "empty"
               \/ ~ex.gap_data.has_key)
                => ex.result = << >>

\* the step is an update_job_status call of a worker that returned True
WorkerWrote ==
    /\ Len(writes') = Len(writes) + 1
    /\ ex'.result = TRUE

\* C34: job-record updates are unconditional, the last writer wins: with two
\* workers on the same job every update that succeeds sets the status and
\* the fields it passes whatever the record held, so a record in Completed
\* or Failed can be overwritten by a later Processing or terminal update and
\* can come to hold a result and an error.
LastWriterWins ==
    [][ WorkerWrote =>
          LET written == Last(writes')
              old == store[JobId]
              new == store'[JobId]
          IN  /\ new.status = written.status
              /\ new.updated_at = now
              /\ \A a \in {"message", "result", "error"} :
                   IF written[a] # NoneVal
                   THEN Has(new, a) /\ new[a] = written[a]
                   ELSE /\ Has(new, a) = Has(old, a)
                        /\ Has(old, a) => new[a] = old[a] ]_vars

\* both workers ended, one completed the job and the other failed it
\* afterwards: the record is Failed and holds a result and an error
RecordHoldsResultAndError ==
    /\ \A k \in Workers : ex.at[k] = "processed"
    /\ store[JobId].status = FAILED
    /\ Has(store[JobId], "result")
    /\ Has(store[JobId], "error")

\* a record that was Completed is in Processing again, by the other worker
CompletedBackInProcessing ==
    /\ store[JobId].status = PROCESSING
    /\ Has(store[JobId], "result")
    /\ \E k \in Workers : ex.at[k] = "processed" /\ ex.by # k

\* the pages at a link distance of at most k from the start URL
RECURSIVE Within(_, _)
Within(edges, k) ==
    IF k <= 0 THEN {1}
    ELSE LET near == Within(edges, k - 1)
         IN  near \cup { edges[i].to : i \in { j \in DOMAIN edges :
                                                 edges[j].from \in near } }

ScrapeSafe ==
    ex.pc \in {"start", "while", "done"}
        => /\ \A i, j \in DOMAIN ex.fetched :
                i # j => ex.fetched[i].url # ex.fetched[j].url
           /\ ex.max_depth = 0 => ex.fetched = << >>
           /\ \A i \in DOMAIN ex.fetched :
                /\ ex.fetched[i].url \in Within(ex.edges, ex.max_depth - 1)
                /\ ex.fetched[i].depth <= ex.max_depth
           /\ ~ex.http => ex.fetched = << >>
           /\ (/\ ex.pc = "done"
               /\ \/ ~ex.http
                  \/ \A i \in DOMAIN ex.fetched :
                       ex.fetched[i].url \in ex.failing)
                => ex.result = << >>

\* C35: scrape_website terminates on every link graph, fetches a URL at most
\* once in a call, fetches no page at a link distance of max_depth or more
\* from the start URL, and returns the empty text when the URL is not
\* http/https or every fetch fails.
ScrapeTerminatesWithinDepth ==
    /\ []ScrapeSafe
    /\ <>(ex.pc = "done")

\* a site whose third page is two links away from the start: with
\* max_depth 2 the call ended with two pages fetched and the third one not
ThirdPageOutOfReach ==
    /\ ex.pc = "done"
    /\ ex.max_depth = 2
    /\ 3 \in Within(ex.edges, 2) \ Within(ex.edges, 1)
    /\ ex.failing = {}
    /\ ex.result = <<1, 2>>
    /\ Len(ex.fetched) = 2

\* every fetch of a call failed and the call returned the empty text
AllFetchesFailed ==
    /\ ex.pc = "done"
    /\ ex.http
    /\ ex.fetched # << >>
    /\ \A i \in DOMAIN ex.fetched : ex.fetched[i].url \in ex.failing
    /\ ex.result = << >>

\* the step is the call of the loop by process()
LoopCalled == w.pc = "analyzed" /\ w'.pc = "deep"

\* the step is one of the running loop and changes its analysis
LoopChangesAnalysis ==
    /\ w.pc = "deep"
    /\ w'.pc = "deep"
    /\ loop'.enriched # loop.enriched

\* the step is an enrichment call that the gateway answered with a text
EnrichmentSucceeded ==
    /\ loop.pc = "incorporate"
    /\ Last(loop'.trail).reply = "text"
    /\ Last(loop'.trail).outcome = "enriched"

\* C36 as stated: started with a non-empty analysis, the loop returns a
\* non-empty analysis that is the one it was started with or the text of a
\* successful enrichment call.
LoopKeepsNonEmptyAnalysis ==
    /\ [](w.pc = "deep" /\ Truthy(w.analysis) => Truthy(loop.enriched))
    /\ [][ (LoopCalled /\ Truthy(w.analysis))
             => loop'.enriched = w.analysis ]_vars
    /\ [][ (LoopChangesAnalysis /\ Truthy(w.analysis))
             => EnrichmentSucceeded /\ Truthy(loop'.enriched) ]_vars

\* C36: started with an analysis that is not blank, the loop returns a
\* non-empty analysis that is the one it was started with or the text of a
\* successful enrichment call, whatever gateway responses are absent and
\* whatever extractions and searches fail.
LoopKeepsNonBlankAnalysis ==
    /\ [](w.pc = "deep" /\ ~IsBlank(w.analysis) => Truthy(loop.enriched))
    /\ [][ (LoopCalled /\ ~IsBlank(w.analysis))
             => loop'.enriched = w.analysis ]_vars
    /\ [][ (LoopChangesAnalysis /\ ~IsBlank(w.analysis))
             => EnrichmentSucceeded /\ Truthy(loop'.enriched) ]_vars

\* a loop started with A0 returned A1: an exception ended its first round
\* and the second one enriched the analysis
EnrichedAfterFailedRound ==
    /\ w.pc = "deep"
    /\ loop.pc = "done"
    /\ w.analysis = <<"A0">>
    /\ loop.enriched = <<"A1">>
    /\ Len(loop.trail) = 2
    /\ loop.trail[1].outcome = "error"
    /\ loop.trail[2].reply = "text"

\* C37: whenever the submission endpoint answers with an error (status
\* error or failed), no job record that the request created is left in the
\* store in Pending without a worker dispatched for it.
ErrorLeavesNoPendingJob ==
    (api.pc = "done" /\ api.response.status \in {"error", "failed"})
        => ~(/\ JobCreated
             /\ store[JobId].status = PENDING
             /\ invokes = << >>
             /\ Enqueued = 0)

\* a request that ended with a client error that names 503 or 429
FailedRetryably(out) ==
    /\ out.kind = "ClientError"
    /\ \/ out.code \in {"ServiceUnavailable", "ThrottlingException"}
       \/ out.message \in { <<"503">>, <<"429">> }

\* at most three requests, a further request only after a 503 or 429 error,
\* an error record at once after another client error, a content record on
\* the first response
RetriesBounded ==
    /\ Len(ex.requests) <= 3
    /\ \A i \in 1..(Len(ex.requests) - 1) : FailedRetryably(ex.requests[i])
    /\ (ex.requests # << >> /\ ex.pc = "while")
         => FailedRetryably(Last(ex.requests))
    /\ (ex.requests # << >> /\ Last(ex.requests).kind = "response")
         => ex.pc = "done" /\ ex.result.kind = "content"
    /\ (/\ ex.requests # << >>
        /\ Last(ex.requests).kind = "ClientError"
        /\ ~FailedRetryably(Last(ex.requests)))
         => /\ ex.pc = "done"
            /\ ex.result = [ kind |-> "error",
                             text |-> Last(ex.requests).message ]

\* C38 as stated: process_image_with_bedrock sends at most 3 requests for a
\* page, retries only after a 503 or 429 client error, returns an error
\* record at once after another client error and a content record on the
\* first success, and returns the error record 'Failed after 3 retries'
\* when all 3 attempts fail.
ThreeFailuresGiveUp ==
    /\ RetriesBounded
    /\ (/\ ex.pc # "while"
        /\ Len(ex.requests) = 3
        /\ \A i \in 1..3 : ex.requests[i].kind # "response")
         => ex.result = [ kind |-> "error",
                          text |-> <<"Failed after 3 retries">> ]

\* C38: process_image_with_bedrock sends at most 3 requests for a page,
\* retries only after a 503 or 429 client error, returns an error record at
\* once after another client error and a content record on the first
\* success, and returns the error record 'Failed after 3 retries' when all 3
\* attempts fail with a 503 or 429 client error.
ThreeRetryableFailuresGiveUp ==
    /\ RetriesBounded
    /\ (/\ ex.pc = "done"
        /\ Len(ex.requests) = 3
        /\ \A i \in 1..3 : FailedRetryably(ex.requests[i]))
         => ex.result = [ kind |-> "error",
                          text |-> <<"Failed after 3 retries">> ]
    /\ (ex.pc = "done" /\ ex.result.text = <<"Failed after 3 retries">>)
         => /\ Len(ex.requests) = 3
            /\ \A i \in 1..3 : FailedRetryably(ex.requests[i])

\* three requests failed with 503, 429 and 503, and the call gave up
GaveUpAfterThree ==
    /\ ex.pc = "done"
    /\ Len(ex.requests) = 3
    /\ ex.requests[1].code = "ServiceUnavailable"
    /\ ex.requests[2].code = "ThrottlingException"
    /\ ex.requests[3].message = <<"503">>
    /\ ex.result.text = <<"Failed after 3 retries">>

----------------------------------------------------------------------------
(* What one status update leaves alone *)

\* the optional arguments a call of update_job_status passed (not None)
PassedTo(call) == { a \in {"message", "result", "error"} : call[a] # NoneVal }

\* the record before the update: update_item makes a record of the key alone
\* when there is none
RecordBefore ==
    IF JobId \in DOMAIN store THEN store[JobId] ELSE [a \in {"jobId"} |-> JobId]

\* the update of this step set exactly status, updated_at and the passed
\* ones of message, result and error, and kept every other attribute
UpdateFrame ==
    LET call == Last(writes')
        set == {"status", "updated_at"} \cup PassedTo(call)
        new == store'[JobId]
    IN  /\ DOMAIN new = DOMAIN RecordBefore \cup set
        /\ \A a \in DOMAIN RecordBefore \ set : new[a] = RecordBefore[a]
        /\ new.status = call.status
        /\ new.updated_at = now
        /\ \A a \in PassedTo(call) : new[a] = call[a]
        /\ call.status = FAILED =>
             /\ PassedTo(call) = {"error"}
             /\ Has(new, "result") = Has(RecordBefore, "result")
             /\ Has(RecordBefore, "message") =>
                  new.message = RecordBefore.message
        /\ call.status = PROCESSING => PassedTo(call) = {"message"}

\* C39: an update_job_status call that succeeds changes only status,
\* updated_at and those of message, result and error that were passed, and
\* leaves created_at, userId, query and every other attribute as they were;
\* so failing a job keeps its last progress message and writes no result,
\* and a progress update writes neither result nor error. A call that fails
\* changes nothing.
UpdateChangesOnlyPassed ==
    [][ IF ex'.result THEN UpdateFrame ELSE store' = store ]_vars

\* a job failed after a progress update: the record still carries that
\* progress message and the attributes create_job gave it, and no result
FailedKeepsProgressMessage ==
    /\ JobId \in DOMAIN store
    /\ Len(writes) = 2
    /\ writes[1].status = PROCESSING
    /\ writes[2].status = FAILED
    /\ store[JobId].status = FAILED
    /\ Has(store[JobId], "message") /\ store[JobId].message = <<"m2">>
    /\ Has(store[JobId], "error")
    /\ ~Has(store[JobId], "result")
    /\ Has(store[JobId], "created_at") /\ store[JobId].created_at = 0
    /\ Has(store[JobId], "userId") /\ store[JobId].userId = "anonymous"
    /\ Has(store[JobId], "query") /\ store[JobId].query = <<"q">>

====
